---------------------------- MODULE Spec2Model ----------------------------
(***************************************************************************)
(* Model of the ViaStitching plugin: the IPC backend                       *)
(* (src/ipc/viastitching_ipc.py) and the dialog engine                     *)
(* (src/viastitching_dialog.py).                                           *)
(*                                                                         *)
(* Lengths are integers (board units).  The code computes distances in     *)
(* floating point; the model compares the exact squared distances, which   *)
(* agrees with the code wherever the float result is exact.                *)
(***************************************************************************)
EXTENDS Integers, Sequences, FiniteSets, TLC

VARIABLES
    gIn,        \* inputs of one placement computation (zone, dims, obstacles, flags)
    gOut,       \* its result: kind, phase, accepted vias, stats
    vias,       \* board: live vias, id -> [x, y, diameter, net]
    zones,      \* board: zones, id -> [net, shape] (shape 0: no filled copper)
    metaItem,   \* board: does the metadata text item exist
    meta,       \* board: parsed value of the metadata text item, zone id -> record
    nextId,     \* host: the next fresh item id
    pc,         \* IPC operation in progress: position
    op,         \* IPC operation in progress: its local variables
    log,        \* board calls issued by the current/last IPC operation, in order
    pre,        \* board snapshot taken when the current/last operation started
    dlg,        \* dialog: session state (owned_via_ids, inputs, flags)
    dpc,        \* dialog: position inside the running action
    dout        \* dialog: result of the last FillupArea

gridVars  == <<gIn, gOut>>
boardVars == <<vias, zones, metaItem, meta, nextId>>
ipcVars   == <<pc, op, log, pre>>
dlgVars   == <<dlg, dpc, dout>>
vars      == <<gIn, gOut, vias, zones, metaItem, meta, nextId, pc, op, log, pre, dlg, dpc, dout>>

-----------------------------------------------------------------------------
(* Generic helpers *)

Range(s) == { s[i] : i \in DOMAIN s }

\* the element of a one-element set; Only({ e(x) : x \in {v} }) is e(v) with v computed one time
Only(S) == CHOOSE v \in S : TRUE

Min2(a, b) == IF a <= b THEN a ELSE b

Max2(a, b) == IF a >= b THEN a ELSE b

Sq(a) == a * a

\* ceil(n / d) for d > 0, as math.ceil(n / float(d))
CeilDiv(n, d) == -((-n) \div d)

\* Python round() of the half-integer v2 / 2: ties go to the even neighbour
PyRoundHalf(v2) ==
    IF v2 % 2 = 0 THEN v2 \div 2
    ELSE LET f == (v2 - 1) \div 2 IN IF f % 2 = 0 THEN f ELSE f + 1

RECURSIVE SetToSortedSeq(_)
SetToSortedSeq(S) ==
    IF S = {} THEN <<>>
    ELSE LET m == CHOOSE v \in S : \A w \in S : v <= w
         IN <<m>> \o SetToSortedSeq(S \ {m})

RECURSIVE SortInts(_)
SortInts(s) ==
    IF s = <<>> THEN <<>>
    ELSE LET i == CHOOSE k \in DOMAIN s : \A l \in DOMAIN s : s[k] <= s[l]
         IN <<s[i]>> \o SortInts(SubSeq(s, 1, i - 1) \o SubSeq(s, i + 1, Len(s)))

\* lexicographic order on pairs, the key (t[0], t[1]) of sorted()
PairLE(p, q) == p[1] < q[1] \/ (p[1] = q[1] /\ p[2] <= q[2])

RECURSIVE SortPairs(_)
SortPairs(s) ==
    IF s = <<>> THEN <<>>
    ELSE LET i == CHOOSE k \in DOMAIN s : \A l \in DOMAIN s : PairLE(s[k], s[l])
         IN <<s[i]>> \o SortPairs(SubSeq(s, 1, i - 1) \o SubSeq(s, i + 1, Len(s)))

RECURSIVE Flatten(_)
Flatten(ss) == IF ss = <<>> THEN <<>> ELSE Head(ss) \o Flatten(Tail(ss))

\* lexicographic > on integer tuples of equal length (Python tuple comparison)
RECURSIVE TupleGT(_, _)
TupleGT(a, b) ==
    IF a = <<>> THEN FALSE
    ELSE IF Head(a) # Head(b) THEN Head(a) > Head(b)
    ELSE TupleGT(Tail(a), Tail(b))

-----------------------------------------------------------------------------
(* Geometry kernel: src/ipc/viastitching_ipc.py *)

\* crossing-number test; x < x_cross is compared after multiplying by denom
_point_in_polygon(x, y, poly) ==
    LET n == Len(poly)
        prev(i) == IF i = 1 THEN n ELSE i - 1
        crosses(i) ==
            LET xi == poly[i][1]
                yi == poly[i][2]
                xj == poly[prev(i)][1]
                yj == poly[prev(i)][2]
                denom == IF yj - yi # 0 THEN yj - yi ELSE 1
            IN  ((yi > y) # (yj > y))
                /\ IF denom > 0
                   THEN (x - xi) * denom < (xj - xi) * (y - yi)
                   ELSE (x - xi) * denom > (xj - xi) * (y - yi)
    IN  n >= 3 /\ Cardinality({i \in 1..n : crosses(i)}) % 2 = 1

\* the squared distance as a fraction <<num, den>>, written as <<num / den, 1>>
\* when it is an integer; den = 0 stands for 1e30
_dist_point_to_segment(x, y, ax, ay, bx, by) ==
    LET vx == bx - ax
        vy == by - ay
        wx == x - ax
        wy == y - ay
        c1 == vx * wx + vy * wy
        c2 == vx * vx + vy * vy
    IN  IF c1 <= 0 THEN <<Sq(x - ax) + Sq(y - ay), 1>>
        ELSE IF c2 <= 0 THEN <<Sq(x - ax) + Sq(y - ay), 1>>
        ELSE IF c1 >= c2 THEN <<Sq(x - bx) + Sq(y - by), 1>>
        ELSE IF ((Sq(wx) + Sq(wy)) * c2 - c1 * c1) % c2 = 0
        THEN <<((Sq(wx) + Sq(wy)) * c2 - c1 * c1) \div c2, 1>>
        ELSE <<(Sq(wx) + Sq(wy)) * c2 - c1 * c1, c2>>

\* d < m for a squared distance d = <<num, den>> and a length m
DistLT(d, m) == m > 0 /\ d[1] < m * m * d[2]

\* d1 <= d2 on squared distances (den = 0 is the largest)
DistLE(d1, d2) ==
    IF d2[2] = 0 THEN TRUE
    ELSE IF d1[2] = 0 THEN FALSE
    ELSE d1[1] * d2[2] <= d2[1] * d1[2]

_poly_min_edge_distance(x, y, points) ==
    LET n == Len(points)
        last(i) == IF i = 1 THEN n ELSE i - 1
        ds == { _dist_point_to_segment(x, y, points[last(i)][1], points[last(i)][2], points[i][1], points[i][2]) : i \in 1..n }
    IN  IF n < 2 THEN <<1, 0>>
        ELSE CHOOSE d \in ds : \A e \in ds : DistLE(d, e)

\* a containment test that checks the margin against the outline only
_point_inside_zone_with_margin_OutlineOnly(x, y, polygons, boundary_margin_nm) ==
    \E k \in DOMAIN polygons :
        /\ _point_in_polygon(x, y, polygons[k].outline)
        /\ ~ \E h \in DOMAIN polygons[k].holes : _point_in_polygon(x, y, polygons[k].holes[h])
        /\ \/ boundary_margin_nm <= 0
           \/ ~ DistLT(_poly_min_edge_distance(x, y, polygons[k].outline), boundary_margin_nm)

_point_inside_zone_with_margin(x, y, polygons, boundary_margin_nm) ==
    \E k \in DOMAIN polygons :
        LET outline == polygons[k].outline
            holes == polygons[k].holes
        IN  /\ outline # <<>>
            /\ _point_in_polygon(x, y, outline)
            /\ ~ \E h \in DOMAIN holes : holes[h] # <<>> /\ _point_in_polygon(x, y, holes[h])
            /\ \/ boundary_margin_nm <= 0
               \/ /\ ~ DistLT(_poly_min_edge_distance(x, y, outline), boundary_margin_nm)
                  /\ ~ \E h \in DOMAIN holes :
                         holes[h] # <<>> /\ DistLT(_poly_min_edge_distance(x, y, holes[h]), boundary_margin_nm)

-----------------------------------------------------------------------------
(* Scanline intervals.  The zone rings of this model are rectilinear, so    *)
(* every crossing x1 + t * (x2 - x1) is the integer x1 and math.ceil /      *)
(* math.floor of an interval end is the end itself.                         *)

_edge_intersections_x(points, y) ==
    LET n == Len(points)
        nxt(i) == IF i = n THEN 1 ELSE i + 1
        hit(i) ==
            LET y1 == points[i][2]
                y2 == points[nxt(i)][2]
            IN  y1 # y2 /\ ((y1 <= y /\ y < y2) \/ (y2 <= y /\ y < y1))
        xat(i) ==
            LET x1 == points[i][1]
                y1 == points[i][2]
                x2 == points[nxt(i)][1]
                y2 == points[nxt(i)][2]
            IN  x1 + ((y - y1) * (x2 - x1)) \div (y2 - y1)
        RECURSIVE collect(_)
        collect(i) ==
            IF i > n THEN <<>>
            ELSE (IF hit(i) THEN <<xat(i)>> ELSE <<>>) \o collect(i + 1)
    IN  IF n < 3 THEN <<>> ELSE SortInts(collect(1))

_intervals_from_ring(points, y) ==
    LET RECURSIVE pairs(_, _)
        pairs(xs, i) ==
            IF i >= Len(xs) THEN <<>>
            ELSE (IF xs[i + 1] > xs[i] THEN << <<xs[i], xs[i + 1]>> >> ELSE <<>>) \o pairs(xs, i + 2)
    IN  pairs(_edge_intersections_x(points, y), 1)

_merge_intervals_KeepTouching(intervals) ==
    LET RECURSIVE fold(_, _, _)
        fold(items, merged, i) ==
            IF i > Len(items) THEN merged
            ELSE IF items[i][1] < merged[Len(merged)][2]
                 THEN fold(items, [merged EXCEPT ![Len(merged)] = <<@[1], Max2(@[2], items[i][2])>>], i + 1)
                 ELSE fold(items, Append(merged, items[i]), i + 1)
    IN  IF intervals = <<>> THEN <<>>
        ELSE Only({ fold(items, <<items[1]>>, 2) : items \in {SortPairs(intervals)} })

_merge_intervals(intervals) ==
    LET RECURSIVE fold(_, _, _)
        fold(items, merged, i) ==
            IF i > Len(items) THEN merged
            ELSE LET a == items[i][1]
                     b == items[i][2]
                     la == merged[Len(merged)][1]
                     lb == merged[Len(merged)][2]
                 IN  IF a <= lb
                     THEN fold(items, [merged EXCEPT ![Len(merged)] = <<la, Max2(lb, b)>>], i + 1)
                     ELSE fold(items, Append(merged, <<a, b>>), i + 1)
    IN  IF intervals = <<>> THEN <<>>
        ELSE Only({ fold(items, <<items[1]>>, 2) : items \in {SortPairs(intervals)} })

_subtract_intervals_RawCuts(base, cuts) ==
    LET RECURSIVE inner(_, _, _)
        inner(cur, b, k) ==
            IF k > Len(cuts) THEN (IF cur < b THEN << <<cur, b>> >> ELSE <<>>)
            ELSE IF cuts[k][2] <= cur THEN inner(cur, b, k + 1)
            ELSE IF cuts[k][1] >= b THEN (IF cur < b THEN << <<cur, b>> >> ELSE <<>>)
            ELSE (IF cuts[k][1] > cur THEN << <<cur, Min2(cuts[k][1], b)>> >> ELSE <<>>)
                 \o (IF Max2(cur, cuts[k][2]) >= b THEN <<>> ELSE inner(Max2(cur, cuts[k][2]), b, k + 1))
    IN  IF cuts = <<>> THEN base
        ELSE Flatten([i \in DOMAIN base |-> inner(base[i][1], base[i][2], 1)])

_subtract_intervals(base, cuts) ==
    LET RECURSIVE inner(_, _, _, _)
        inner(cuts_merged, cur, b, k) ==
            IF k > Len(cuts_merged) THEN (IF cur < b THEN << <<cur, b>> >> ELSE <<>>)
            ELSE LET ca == cuts_merged[k][1]
                     cb == cuts_merged[k][2]
                 IN  IF cb <= cur THEN inner(cuts_merged, cur, b, k + 1)
                     ELSE IF ca >= b THEN (IF cur < b THEN << <<cur, b>> >> ELSE <<>>)
                     ELSE LET piece == IF ca > cur THEN << <<cur, Min2(ca, b)>> >> ELSE <<>>
                              cur2 == Max2(cur, cb)
                          IN  IF cur2 >= b THEN piece ELSE piece \o inner(cuts_merged, cur2, b, k + 1)
        RECURSIVE outer(_, _)
        outer(cuts_merged, i) ==
            IF i > Len(base) THEN <<>>
            ELSE inner(cuts_merged, base[i][1], base[i][2], 1) \o outer(cuts_merged, i + 1)
    IN  IF base = <<>> THEN <<>>
        ELSE IF cuts = <<>> THEN base
        ELSE outer(_merge_intervals(cuts), 1)

_row_intervals(polygons, y) ==
    LET holes(poly) ==
            Flatten([h \in DOMAIN poly.holes |->
                IF Len(poly.holes[h]) < 3 THEN <<>> ELSE _intervals_from_ring(poly.holes[h], y)])
        one(poly) ==
            IF Len(poly.outline) < 3 THEN <<>>
            ELSE Only({ IF filled = <<>> THEN <<>>
                        ELSE IF hole_intervals # <<>> THEN _subtract_intervals(filled, hole_intervals)
                        ELSE filled :
                        filled \in {_intervals_from_ring(poly.outline, y)}, hole_intervals \in {holes(poly)} })
    IN  _merge_intervals(Flatten([k \in DOMAIN polygons |-> one(polygons[k])]))

\* grid points of an interval without its right end
_grid_points_in_interval_OpenRight(a, b, start_x, step_x) ==
    LET k == CeilDiv(a - start_x, step_x)
        x == start_x + k * step_x
    IN  IF b <= a \/ x >= b THEN <<>>
        ELSE [i \in 1..((b - 1 - x) \div step_x + 1) |-> x + (i - 1) * step_x]

_grid_points_in_interval(a, b, start_x, step_x) ==
    LET left == a
        right == b
        k == CeilDiv(left - start_x, step_x)
        x == start_x + k * step_x
    IN  IF right < left THEN <<>>
        ELSE IF x > right THEN <<>>
        ELSE [i \in 1..((right - x) \div step_x + 1) |-> x + (i - 1) * step_x]

\* n points from the left end of the interval on
_centered_points_in_interval_LeftAligned(a, b, step_x, n) ==
    IF n <= 0 THEN <<>> ELSE [i \in 1..n |-> a + (i - 1) * step_x]

\* x0 = a + 0.5 * (span - used); 2 * (x0 + i * step_x) is an integer
_centered_points_in_interval(a, b, step_x, n) ==
    IF n <= 0 THEN <<>>
    ELSE [i \in 1..n |-> PyRoundHalf(a + b - (n - 1) * step_x + 2 * (i - 1) * step_x)]

_row_segment_points(intervals, step_x, start_x, center_segments, maximize_vias) ==
    LET pts(iv) ==
            LET a == iv[1]
                b == iv[2]
                grid_pts == _grid_points_in_interval(a, b, start_x, step_x)
                n == IF maximize_vias THEN (b - a) \div step_x + 1 ELSE Len(grid_pts)
            IN  IF b < a THEN <<>>
                ELSE IF ~center_segments THEN grid_pts
                ELSE IF n <= 0 THEN <<>>
                ELSE _centered_points_in_interval(a, b, step_x, n)
        row_points == Flatten([i \in DOMAIN intervals |-> pts(intervals[i])])
    IN  SetToSortedSeq(Range(row_points))

-----------------------------------------------------------------------------
(* Obstacles.  A board is [vias: id -> via, pads: seq, tracks: seq]; a via  *)
(* is [x, y, diameter, net, layers], a pad [x, y, sx, sy, layers] (sx, sy:  *)
(* bounding box size), a track [sx, sy, ex, ey, width, layers].             *)

_layer_set_of(item) ==
    IF "layers" \in DOMAIN item /\ item.layers # {} THEN item.layers
    ELSE IF "layer" \in DOMAIN item THEN {item.layer}
    ELSE {}

\* a gatherer that ignores every via of the board
_gather_via_obstacles_IgnoreAll(board, ignore_ids, target_layers, include_other_layers) == <<>>

_gather_via_obstacles(board, ignore_ids, target_layers, include_other_layers) ==
    LET used == { id \in DOMAIN board.vias :
                    /\ id \notin ignore_ids
                    /\ \/ include_other_layers
                       \/ ~ (_layer_set_of(board.vias[id]) # {} /\ _layer_set_of(board.vias[id]) \cap target_layers = {}) }
        ids == SetToSortedSeq(used)
    IN  [i \in DOMAIN ids |-> <<board.vias[ids[i]].x, board.vias[ids[i]].y, board.vias[ids[i]].diameter \div 2>>]

\* a pad filter that also skips a pad whose layer set is empty
_gather_pad_obstacles_Strict(board, target_layers, include_other_layers) ==
    LET keep(pad) == include_other_layers \/ _layer_set_of(pad) \cap target_layers # {}
        rad(pad) == IF Max2(pad.sx, pad.sy) \div 2 <= 0 THEN 1 ELSE Max2(pad.sx, pad.sy) \div 2
    IN  Flatten([i \in DOMAIN board.pads |->
            IF keep(board.pads[i]) THEN << <<board.pads[i].x, board.pads[i].y, rad(board.pads[i])>> >> ELSE <<>>])

_gather_pad_obstacles(board, target_layers, include_other_layers) ==
    LET keep(pad) == include_other_layers \/ ~ (_layer_set_of(pad) # {} /\ _layer_set_of(pad) \cap target_layers = {})
        rad(pad) == IF Max2(pad.sx, pad.sy) \div 2 <= 0 THEN 1 ELSE Max2(pad.sx, pad.sy) \div 2
    IN  Flatten([i \in DOMAIN board.pads |->
            IF keep(board.pads[i]) THEN << <<board.pads[i].x, board.pads[i].y, rad(board.pads[i])>> >> ELSE <<>>])

_gather_track_obstacles(board, target_layers, include_other_layers) ==
    LET keep(t) == include_other_layers \/ ~ (_layer_set_of(t) # {} /\ _layer_set_of(t) \cap target_layers = {})
    IN  Flatten([i \in DOMAIN board.tracks |->
            IF keep(board.tracks[i])
            THEN << <<board.tracks[i].sx, board.tracks[i].sy, board.tracks[i].ex, board.tracks[i].ey, board.tracks[i].width>> >>
            ELSE <<>>])

\* an overlap test that also rejects at exactly the limit distance
_conflicts_with_obstacles_Inclusive(x, y, via_radius, pad_margin, via_obstacles, pad_obstacles, track_obstacles) ==
    LET own_limit == via_radius + pad_margin
    IN  \/ \E i \in DOMAIN via_obstacles :
              Sq(x - via_obstacles[i][1]) + Sq(y - via_obstacles[i][2]) <= Sq(own_limit + via_obstacles[i][3])
        \/ \E i \in DOMAIN pad_obstacles :
              Sq(x - pad_obstacles[i][1]) + Sq(y - pad_obstacles[i][2]) <= Sq(own_limit + pad_obstacles[i][3])
        \/ \E i \in DOMAIN track_obstacles :
              DistLE(_dist_point_to_segment(x, y, track_obstacles[i][1], track_obstacles[i][2], track_obstacles[i][3], track_obstacles[i][4]),
                     <<Sq(own_limit + (track_obstacles[i][5] \div 2)), 1>>)

\* math.hypot(dx, dy) < min_dist  <=>  dx^2 + dy^2 < min_dist^2  (min_dist >= 0)
_conflicts_with_obstacles(x, y, via_radius, pad_margin, via_obstacles, pad_obstacles, track_obstacles) ==
    LET own_limit == via_radius + pad_margin
    IN  \/ \E i \in DOMAIN via_obstacles :
              DistLT(<<Sq(x - via_obstacles[i][1]) + Sq(y - via_obstacles[i][2]), 1>>, own_limit + via_obstacles[i][3])
        \/ \E i \in DOMAIN pad_obstacles :
              DistLT(<<Sq(x - pad_obstacles[i][1]) + Sq(y - pad_obstacles[i][2]), 1>>, own_limit + pad_obstacles[i][3])
        \/ \E i \in DOMAIN track_obstacles :
              DistLT(_dist_point_to_segment(x, y, track_obstacles[i][1], track_obstacles[i][2], track_obstacles[i][3], track_obstacles[i][4]),
                     own_limit + (track_obstacles[i][5] \div 2))

-----------------------------------------------------------------------------
(* Settings *)

\* settings are kept in board units (mm_to_nm applied); dims is the validated dict
_validate_settings(settings) ==
    IF settings.ViaSize <= 0 \/ settings.ViaDrill <= 0 THEN "Via size and drill must be > 0."
    ELSE IF settings.ViaDrill >= settings.ViaSize THEN "Via drill must be smaller than via size."
    ELSE IF settings.HSpacing <= 0 \/ settings.VSpacing <= 0 THEN "HSpacing and VSpacing must be > 0."
    ELSE IF settings.EdgeMargin < 0 \/ settings.PadMargin < 0 THEN "Margins cannot be negative."
    ELSE "ok"

Dims(settings) ==
    [via_size |-> settings.ViaSize, via_drill |-> settings.ViaDrill,
     step_x |-> settings.HSpacing, step_y |-> settings.VSpacing,
     off_x |-> settings.HOffset, off_y |-> settings.VOffset,
     edge_margin |-> settings.EdgeMargin, pad_margin |-> settings.PadMargin]

-----------------------------------------------------------------------------
(* Grid placement and phase search *)

\* phase offsets handed out from the largest to the smallest
_phase_offsets_Descending(step, base_offset, samples) ==
    IF step <= 0 THEN <<0>>
    ELSE LET offsets == SetToSortedSeq({base_offset % step}
                \cup (IF samples > 1 THEN { (i * step) \div samples : i \in 0..(samples - 1) } ELSE {}))
         IN  [k \in DOMAIN offsets |-> offsets[Len(offsets) + 1 - k]]

_phase_offsets(step, base_offset, samples) ==
    IF step <= 0 THEN <<0>>
    ELSE SetToSortedSeq({base_offset % step}
            \cup (IF samples > 1 THEN { (i * step) \div samples : i \in 0..(samples - 1) } ELSE {}))

_build_candidates_for_phase(zone, polygons, dims, via_obstacles_seed, pad_obstacles, track_obstacles, phase_x, phase_y, center_segments, maximize_vias) ==
    LET via_radius == dims.via_size \div 2
        x0 == zone.bbox[1]
        y0 == zone.bbox[2]
        y1 == zone.bbox[4]
        start_x == x0 + ((phase_x - x0) % dims.step_x)
        start_y == y0 + ((phase_y - y0) % dims.step_y)
        boundary_margin == via_radius + dims.edge_margin
        \* for x in row_points
        RECURSIVE scan(_, _, _, _)
        scan(row_points, y, i, acc) ==
            IF i > Len(row_points) THEN acc
            ELSE LET x == row_points[i]
                 IN  IF ~ _point_inside_zone_with_margin(x, y, polygons, boundary_margin)
                     THEN scan(row_points, y, i + 1, [acc EXCEPT !.candidates_tested = @ + 1, !.rejected_edge = @ + 1])
                     ELSE IF _conflicts_with_obstacles(x, y, via_radius, dims.pad_margin, acc.via_obstacles, pad_obstacles, track_obstacles)
                     THEN scan(row_points, y, i + 1, [acc EXCEPT !.candidates_tested = @ + 1, !.inside = @ + 1, !.rejected_overlap = @ + 1])
                     ELSE scan(row_points, y, i + 1, [acc EXCEPT !.candidates_tested = @ + 1, !.inside = @ + 1,
                                                                 !.new_vias = Append(@, <<x, y>>),
                                                                 !.via_obstacles = Append(@, <<x, y, via_radius>>)])
        \* while y <= y1
        RECURSIVE rows(_, _)
        rows(y, acc) ==
            IF y > y1 THEN acc
            ELSE Only({ rows(y + dims.step_y, after) :
                        after \in { scan(_row_segment_points(_row_intervals(polygons, y), dims.step_x, start_x,
                                                             center_segments, maximize_vias), y, 1, acc) } })
    IN  Only({ [new_vias |-> res.new_vias, candidates_tested |-> res.candidates_tested, inside |-> res.inside,
                rejected_overlap |-> res.rejected_overlap, rejected_edge |-> res.rejected_edge,
                phase_x |-> phase_x, phase_y |-> phase_y] :
               res \in { rows(start_y, [candidates_tested |-> 0, inside |-> 0, rejected_overlap |-> 0, rejected_edge |-> 0,
                                        new_vias |-> <<>>, via_obstacles |-> via_obstacles_seed]) } })

\* a score that prefers fewer accepted vias
PhaseScore_FewestFirst(trial) ==
    <<-Len(trial.new_vias), -(trial.rejected_overlap + trial.rejected_edge), -trial.rejected_edge, -trial.phase_y>>

\* score tuple of _build_candidates, larger is better
PhaseScore(trial) ==
    <<Len(trial.new_vias), -(trial.rejected_overlap + trial.rejected_edge), -trial.rejected_edge, -trial.phase_y>>

\* phase sample counts of _build_candidates
y_phase_samples(maximize_vias) == IF maximize_vias THEN 8 ELSE 1

x_phase_samples(center_segments, maximize_vias) == IF maximize_vias /\ ~center_segments THEN 6 ELSE 1

\* the (best_vias, best_stats) of the code, with the phase that produced them
_build_candidates(board, zone, polygons, dims, ignore_owned_ids, include_other_layers, center_segments, maximize_vias) ==
    LET zone_layers == _layer_set_of(zone)
        via_obstacles_seed == _gather_via_obstacles(board, ignore_owned_ids, zone_layers, include_other_layers)
        pad_obstacles == _gather_pad_obstacles(board, zone_layers, include_other_layers)
        track_obstacles == _gather_track_obstacles(board, zone_layers, include_other_layers)
        x_offsets == _phase_offsets(dims.step_x, dims.off_x, x_phase_samples(center_segments, maximize_vias))
        y_offsets == _phase_offsets(dims.step_y, dims.off_y, y_phase_samples(maximize_vias))
        phases == Flatten([j \in DOMAIN y_offsets |-> [i \in DOMAIN x_offsets |-> <<x_offsets[i], y_offsets[j]>>]])
        trial(k) == _build_candidates_for_phase(zone, polygons, dims, via_obstacles_seed, pad_obstacles, track_obstacles,
                                                phases[k][1], phases[k][2], center_segments, maximize_vias)
        RECURSIVE search(_, _)
        search(k, best) ==
            IF k > Len(phases) THEN best
            ELSE Only({ IF TupleGT(PhaseScore(t), PhaseScore(best)) THEN search(k + 1, t) ELSE search(k + 1, best) :
                        t \in {trial(k)} })
    IN  search(2, trial(1))

-----------------------------------------------------------------------------
(* Input domain of the placement computations *)

\* side of the square the zone shapes are drawn in
ZoneSize == 6

Ring(x0, y0, x1, y1) == << <<x0, y0>>, <<x1, y0>>, <<x1, y1>>, <<x0, y1>> >>

\* zone shapes: filled regions (outline + holes) with the zone's bounding box
ZoneShapes ==
    << [bbox |-> <<0, 0, ZoneSize, ZoneSize>>,
        polygons |-> << [outline |-> Ring(0, 0, ZoneSize, ZoneSize), holes |-> <<>>] >>],
       [bbox |-> <<0, 0, ZoneSize, ZoneSize>>,
        polygons |-> << [outline |-> Ring(0, 0, ZoneSize, ZoneSize), holes |-> << Ring(2, 2, 4, 4) >>] >>],
       [bbox |-> <<0, 0, ZoneSize, ZoneSize>>,
        polygons |-> << [outline |-> << <<0, 0>>, <<ZoneSize, 0>>, <<ZoneSize, 3>>, <<3, 3>>, <<3, ZoneSize>>, <<0, ZoneSize>> >>,
                         holes |-> <<>>] >>],
       [bbox |-> <<0, 0, ZoneSize, ZoneSize>>,
        polygons |-> << [outline |-> Ring(0, 0, 2, ZoneSize), holes |-> <<>>],
                        [outline |-> Ring(3, 0, ZoneSize, ZoneSize), holes |-> <<>>] >>] >>

ZoneLayers == {0}

GridZone(shape) == [bbox |-> ZoneShapes[shape].bbox, layers |-> ZoneLayers, net |-> "GND"]

\* obstacle sets tried: none, a via at the centre, a via near a corner, a pad, a track
ObstacleBoards ==
    { [vias |-> <<>>, pads |-> <<>>, tracks |-> <<>>],
      [vias |-> [i \in {1} |-> [x |-> 3, y |-> 3, diameter |-> 2, net |-> "GND", layers |-> {0}]], pads |-> <<>>, tracks |-> <<>>],
      [vias |-> [i \in {1} |-> [x |-> 1, y |-> 1, diameter |-> 2, net |-> "GND", layers |-> {0}]], pads |-> <<>>, tracks |-> <<>>],
      [vias |-> <<>>, pads |-> << [x |-> 1, y |-> 1, sx |-> 2, sy |-> 1, layers |-> {0}] >>, tracks |-> <<>>],
      [vias |-> <<>>, pads |-> <<>>, tracks |-> << [sx |-> 0, sy |-> 5, ex |-> 3, ey |-> 5, width |-> 1, layers |-> {0}] >>] }

GridSettings ==
    [ViaSize : {2, 3}, ViaDrill : {1}, HSpacing : {2, 3}, VSpacing : {2, 3},
     HOffset : {0, 1}, VOffset : {0, 1}, EdgeMargin : {0, 1}, PadMargin : {0, 1}]

GridInputs ==
    [shape : DOMAIN ZoneShapes, settings : GridSettings, board : ObstacleBoards,
     center_segments : BOOLEAN, maximize_vias : BOOLEAN]

NoResult ==
    [new_vias |-> <<>>, candidates_tested |-> 0, inside |-> 0, rejected_overlap |-> 0, rejected_edge |-> 0,
     phase_x |-> 0, phase_y |-> 0]

\* one grid run on the inputs g at phase (px, py)
GridRunAt(g, px, py) ==
    _build_candidates_for_phase(GridZone(g.shape), ZoneShapes[g.shape].polygons, Dims(g.settings),
        _gather_via_obstacles(g.board, {}, ZoneLayers, TRUE),
        _gather_pad_obstacles(g.board, ZoneLayers, TRUE),
        _gather_track_obstacles(g.board, ZoneLayers, TRUE),
        px, py, g.center_segments, g.maximize_vias)

GridSearch(g) ==
    _build_candidates(g.board, GridZone(g.shape), ZoneShapes[g.shape].polygons, Dims(g.settings),
        {}, TRUE, g.center_segments, g.maximize_vias)

-----------------------------------------------------------------------------
(* Idle values of the state the placement specification does not use *)

IdleBoard ==
    /\ vias = <<>>
    /\ zones = <<>>
    /\ metaItem = FALSE
    /\ meta = <<>>
    /\ nextId = 1

NoOp ==
    [kind |-> "none", zone |-> 0, status |-> "idle", error |-> "ok", settings |-> <<>>,
     force_maximize |-> FALSE, owned_ids |-> <<>>, user_vias |-> {}, answer |-> FALSE, new_vias |-> <<>>,
     to_remove |-> {}, created_ids |-> <<>>, metadata |-> <<>>, meta_changed |-> FALSE, cleaned_ids |-> 0]

NoPre == [vias |-> <<>>, meta |-> <<>>, metaItem |-> FALSE]

IdleIpc ==
    /\ pc = "idle"
    /\ op = NoOp
    /\ log = <<>>
    /\ pre = NoPre

IdleDialog ==
    /\ dlg = <<>>
    /\ dpc = "idle"
    /\ dout = <<>>

IdleGrid ==
    /\ gIn = <<>>
    /\ gOut = [kind |-> "none", res |-> NoResult]

-----------------------------------------------------------------------------
(* Specification of the pure placement computations *)

InitGrid ==
    /\ gIn \in GridInputs
    /\ gOut = [kind |-> "none", res |-> NoResult]
    /\ IdleBoard
    /\ IdleIpc
    /\ IdleDialog

\* a single _build_candidates_for_phase run, at the zero phase or at the user's offset
RunPhase ==
    /\ gOut.kind = "none"
    /\ \E px \in {0, gIn.settings.HOffset}, py \in {0, gIn.settings.VOffset} :
           gOut' = [kind |-> "phase", res |-> GridRunAt(gIn, px, py)]
    /\ UNCHANGED <<gIn, boardVars, ipcVars, dlgVars>>

\* the phase search _build_candidates
RunSearch ==
    /\ gOut.kind = "none"
    /\ gOut' = [kind |-> "search", res |-> GridSearch(gIn)]
    /\ UNCHANGED <<gIn, boardVars, ipcVars, dlgVars>>

NextGrid == RunPhase \/ RunSearch

SpecGrid == InitGrid /\ [][NextGrid]_vars

-----------------------------------------------------------------------------
(* The board of the IPC operations *)

\* ids the host hands out are capped at MaxIds
MaxIds == 4

ZoneIds == {1, 2}

ViaLayers == {0, 1}

\* the zones of the board: same net, one per copper layer
BoardZone(z, shape, filled) ==
    [shape |-> shape, filled |-> filled, net |-> "GND", layers |-> {z - 1}, name |-> IF z = 1 THEN "top" ELSE "bottom"]

EditShapes == {1, 3}

\* vias a user can draw by hand
UserViaCatalog ==
    { [x |-> 3, y |-> 1, diameter |-> 2, net |-> "GND", layers |-> ViaLayers],
      [x |-> 5, y |-> 5, diameter |-> 2, net |-> "VCC", layers |-> ViaLayers] }

\* what the user can type into the zone settings prompt: a pitch that fits
\* two vias, an edge margin nothing fits in, a drill as large as the via
IpcSettingsChoices ==
    { [ViaSize |-> 2, ViaDrill |-> 1, HSpacing |-> 4, VSpacing |-> 6, HOffset |-> 1, VOffset |-> 5, EdgeMargin |-> 0, PadMargin |-> 0,
       IncludeOtherLayers |-> TRUE, CenterSegments |-> FALSE, MaximizeVias |-> FALSE],
      [ViaSize |-> 2, ViaDrill |-> 1, HSpacing |-> 3, VSpacing |-> 3, HOffset |-> 0, VOffset |-> 0, EdgeMargin |-> 3, PadMargin |-> 0,
       IncludeOtherLayers |-> TRUE, CenterSegments |-> TRUE, MaximizeVias |-> FALSE],
      [ViaSize |-> 2, ViaDrill |-> 2, HSpacing |-> 3, VSpacing |-> 3, HOffset |-> 0, VOffset |-> 0, EdgeMargin |-> 0, PadMargin |-> 0,
       IncludeOtherLayers |-> TRUE, CenterSegments |-> TRUE, MaximizeVias |-> FALSE] }

\* run_mode: "update" leaves force_maximize unset
ForceMaximizeModes == {FALSE}

\* the zone the user edits and deletes
EditedZones == {1}

_zone_polygons(zone) == IF zone.filled THEN ZoneShapes[zone.shape].polygons ELSE <<>>

\* the zone as the placement functions see it
ZoneView(zone) == [bbox |-> ZoneShapes[zone.shape].bbox, layers |-> zone.layers, net |-> zone.net]

BoardView == [vias |-> vias, pads |-> <<>>, tracks |-> <<>>]

\* a test that asks for the centre to keep a distance of 2 from the outline
_via_inside_zone_Margin2(via, zone_polygons) == _point_inside_zone_with_margin(via.x, via.y, zone_polygons, 2)

_via_inside_zone(via, zone_polygons) == _point_inside_zone_with_margin(via.x, via.y, zone_polygons, 0)

\* a user-via scan that forgets the net
_vias_on_zone_net_inside_AnyNet(board, zone, polygons, exclude_ids) ==
    { id \in DOMAIN board.vias : id \notin exclude_ids /\ _via_inside_zone(board.vias[id], polygons) }

\* ids of the vias on the zone's net inside its fill, the excluded ids left out
_vias_on_zone_net_inside(board, zone, polygons, exclude_ids) ==
    IF zone.net = "" THEN {}
    ELSE { id \in DOMAIN board.vias :
             /\ id \notin exclude_ids
             /\ board.vias[id].net = zone.net
             /\ _via_inside_zone(board.vias[id], polygons) }

\* the parsed metadata of the board: that of the text item, or the empty one
_find_metadata == IF metaItem THEN meta ELSE <<>>

NoEntry == [owned_via_ids |-> <<>>, settings |-> <<>>, zone_name |-> ""]

\* metadata in which every zone gets the entry written for zone z
WithEntry_EveryZone(metadata, z, entry) == [k \in DOMAIN metadata \cup {z} |-> entry]

\* metadata with zone z's entry replaced
WithEntry(metadata, z, entry) ==
    [k \in DOMAIN metadata \cup {z} |-> IF k = z THEN entry ELSE metadata[k]]

\* ownership that keeps the previous ids in front of the new ones
NewOwnedIds_Append(old_ids, created_ids) == old_ids \o created_ids

\* owned_via_ids written by a successful update
NewOwnedIds(old_ids, created_ids) == created_ids

Snapshot == [vias |-> vias, meta |-> meta, metaItem |-> metaItem]

Called(call, ok) == Append(log, [call |-> call, ok |-> ok])

-----------------------------------------------------------------------------
(* Specification of the IPC operations on a board *)

Init ==
    /\ vias = <<>>
    /\ zones = [z \in ZoneIds |-> BoardZone(z, 1, TRUE)]
    /\ metaItem = FALSE
    /\ meta = <<>>
    /\ nextId = 1
    /\ IdleIpc
    /\ IdleGrid
    /\ IdleDialog

(* what the user does to the board between plugin runs *)

UserAddVia ==
    /\ pc = "idle"
    /\ nextId <= MaxIds
    /\ \E v \in UserViaCatalog :
           /\ \A id \in DOMAIN vias : <<vias[id].x, vias[id].y>> # <<v.x, v.y>>
           /\ vias' = [id \in DOMAIN vias \cup {nextId} |-> IF id = nextId THEN v ELSE vias[id]]
    /\ nextId' = nextId + 1
    /\ UNCHANGED <<zones, metaItem, meta, ipcVars, gridVars, dlgVars>>

UserDeleteVia ==
    /\ pc = "idle"
    /\ \E id \in DOMAIN vias : vias' = [k \in DOMAIN vias \ {id} |-> vias[k]]
    /\ UNCHANGED <<zones, metaItem, meta, nextId, ipcVars, gridVars, dlgVars>>

\* editing a zone's outline leaves it unfilled
ZoneEdit ==
    /\ pc = "idle"
    /\ \E z \in DOMAIN zones \cap EditedZones, sh \in EditShapes :
           /\ sh # zones[z].shape
           /\ zones' = [zones EXCEPT ![z].shape = sh, ![z].filled = FALSE]
    /\ UNCHANGED <<vias, metaItem, meta, nextId, ipcVars, gridVars, dlgVars>>

ZoneFill ==
    /\ pc = "idle"
    /\ \E z \in DOMAIN zones : ~zones[z].filled
    /\ zones' = [z \in DOMAIN zones |-> [zones[z] EXCEPT !.filled = TRUE]]
    /\ UNCHANGED <<vias, metaItem, meta, nextId, ipcVars, gridVars, dlgVars>>

ZoneDelete ==
    /\ pc = "idle"
    /\ \E z \in DOMAIN zones \cap EditedZones : zones' = [k \in DOMAIN zones \ {z} |-> zones[k]]
    /\ UNCHANGED <<vias, metaItem, meta, nextId, ipcVars, gridVars, dlgVars>>

(* _update_zone_array *)

\* lines 1107-1121: the fill is ensured (refill prompt), metadata and settings are loaded
UpdateOpen ==
    /\ pc = "idle"
    /\ \E z \in DOMAIN zones, force \in ForceMaximizeModes, refill \in BOOLEAN :
           IF ~zones[z].filled /\ ~refill
           THEN /\ pc' = "done"
                /\ op' = [NoOp EXCEPT !.kind = "update", !.zone = z, !.status = "canceled"]
                /\ UNCHANGED zones
           ELSE /\ pc' = "prompt"
                /\ op' = [NoOp EXCEPT !.kind = "update", !.zone = z, !.status = "running", !.force_maximize = force]
                /\ zones' = IF zones[z].filled THEN zones
                            ELSE [k \in DOMAIN zones |-> [zones[k] EXCEPT !.filled = TRUE]]
    /\ pre' = Snapshot
    /\ log' = <<>>
    /\ UNCHANGED <<vias, metaItem, meta, nextId, gridVars, dlgVars>>

\* _prompt_zone_settings: Cancel
PromptCancel ==
    /\ pc = "prompt"
    /\ pc' = "done"
    /\ op' = [op EXCEPT !.status = "canceled"]
    /\ UNCHANGED <<boardVars, log, pre, gridVars, dlgVars>>

\* an update that goes on to its commit whatever the placement holds
NoViasPlaced_Never(new_vias) == FALSE

\* line 1170: the placement is empty
NoViasPlaced(new_vias) == new_vias = <<>>

\* _prompt_zone_settings: OK with the typed values s, then lines 1128-1177
PromptSubmit ==
    /\ pc = "prompt"
    /\ \E s \in IpcSettingsChoices, ans \in BOOLEAN :
         IF _validate_settings(s) # "ok"
         THEN /\ op' = [op EXCEPT !.error = _validate_settings(s)]
              /\ UNCHANGED <<pc, log>>
         ELSE LET z == op.zone
                  zone == zones[z]
                  polygons == _zone_polygons(zone)
                  metadata == _find_metadata
                  zone_entry == IF z \in DOMAIN metadata THEN metadata[z] ELSE NoEntry
                  settings == IF op.force_maximize THEN [s EXCEPT !.MaximizeVias = TRUE] ELSE s
                  owned_ids == zone_entry.owned_via_ids
                  owned_id_set == Range(owned_ids)
                  owned_vias == owned_id_set \cap DOMAIN vias
                  user_vias == _vias_on_zone_net_inside(BoardView, zone, polygons, owned_id_set)
                  replace_user_vias == user_vias # {} /\ ans
                  ignore_ids == owned_id_set \cup (IF replace_user_vias THEN user_vias ELSE {})
                  best == _build_candidates(BoardView, ZoneView(zone), polygons, Dims(settings), ignore_ids,
                                            settings.IncludeOtherLayers, settings.CenterSegments, settings.MaximizeVias)
              IN  /\ nextId + Len(best.new_vias) - 1 <= MaxIds
                  /\ log' = Called("_build_candidates", TRUE)
                  /\ IF NoViasPlaced(best.new_vias)
                     THEN /\ pc' = "done"
                          /\ op' = [op EXCEPT !.status = "error", !.error = "No vias placed.", !.settings = settings,
                                              !.owned_ids = owned_ids, !.user_vias = user_vias, !.answer = replace_user_vias]
                     ELSE /\ pc' = "begin"
                          /\ op' = [op EXCEPT !.error = "ok", !.settings = settings, !.owned_ids = owned_ids, !.user_vias = user_vias,
                                              !.answer = replace_user_vias, !.new_vias = best.new_vias,
                                              !.to_remove = owned_vias \cup (IF replace_user_vias THEN user_vias ELSE {})]
    /\ UNCHANGED <<boardVars, pre, gridVars, dlgVars>>

(* _remove_zone_array, lines 1226-1253 *)

\* a remove-array that goes on to a commit even without an ownership record
RemoveStart_NoEarlyReturn ==
    /\ pc = "idle"
    /\ \E z \in DOMAIN zones :
         LET metadata == _find_metadata
             owned_ids == IF z \in DOMAIN metadata THEN metadata[z].owned_via_ids ELSE <<>>
         IN  /\ pc' = "begin"
             /\ op' = [NoOp EXCEPT !.kind = "remove", !.zone = z, !.status = "running", !.owned_ids = owned_ids,
                                   !.to_remove = Range(owned_ids) \cap DOMAIN vias]
    /\ pre' = Snapshot
    /\ log' = <<>>
    /\ UNCHANGED <<boardVars, gridVars, dlgVars>>

RemoveStart ==
    /\ pc = "idle"
    /\ \E z \in DOMAIN zones, ans \in BOOLEAN :
         LET metadata == _find_metadata
             owned_ids == IF z \in DOMAIN metadata THEN metadata[z].owned_via_ids ELSE <<>>
             owned_id_set == Range(owned_ids)
             owned_vias == owned_id_set \cap DOMAIN vias
             polygons == _zone_polygons(zones[z])
             user_vias == IF polygons # <<>> THEN _vias_on_zone_net_inside(BoardView, zones[z], polygons, owned_id_set) ELSE {}
             remove_user_vias == user_vias # {} /\ ans
         IN  IF z \notin DOMAIN metadata \/ owned_ids = <<>>
             THEN /\ pc' = "done"
                  /\ op' = [NoOp EXCEPT !.kind = "remove", !.zone = z, !.status = "noop"]
             ELSE /\ pc' = "begin"
                  /\ op' = [NoOp EXCEPT !.kind = "remove", !.zone = z, !.status = "running", !.owned_ids = owned_ids,
                                        !.user_vias = user_vias, !.answer = remove_user_vias,
                                        !.to_remove = owned_vias \cup (IF remove_user_vias THEN user_vias ELSE {})]
    /\ pre' = Snapshot
    /\ log' = <<>>
    /\ UNCHANGED <<boardVars, gridVars, dlgVars>>

(* _clean_orphans, lines 1293-1333 *)

\* an owned id of zone zid that stays in the record
ValidOwned(zid, vid) ==
    /\ vid \in DOMAIN vias
    /\ zid \in DOMAIN zones
    /\ _zone_polygons(zones[zid]) # <<>>
    /\ _via_inside_zone(vias[vid], _zone_polygons(zones[zid]))

\* a scan that keeps every id whose via is live, wherever the via is
valid_ids_LiveOnly(zid, owned_ids) ==
    LET Keep(vid) == vid \in DOMAIN vias
    IN  SelectSeq(owned_ids, Keep)

valid_ids(zid, owned_ids) ==
    LET Keep(vid) == ValidOwned(zid, vid)
    IN  SelectSeq(owned_ids, Keep)

orphan_vias(metadata) ==
    { vid \in DOMAIN vias : \E zid \in DOMAIN metadata :
          vid \in Range(metadata[zid].owned_via_ids) /\ ~ValidOwned(zid, vid) }

RECURSIVE SumOver(_, _)
SumOver(f, S) == IF S = {} THEN 0 ELSE LET k == CHOOSE k \in S : TRUE IN f[k] + SumOver(f, S \ {k})

CleanStart ==
    /\ pc = "idle"
    /\ LET metadata == _find_metadata
           cleaned == [zid \in DOMAIN metadata |->
                          [metadata[zid] EXCEPT !.owned_via_ids = valid_ids(zid, metadata[zid].owned_via_ids)]]
           cleaned_ids == SumOver([zid \in DOMAIN metadata |->
                                      Len(metadata[zid].owned_via_ids) - Len(cleaned[zid].owned_via_ids)], DOMAIN metadata)
       IN  IF DOMAIN metadata = {} \/ (orphan_vias(metadata) = {} /\ cleaned_ids = 0)
           THEN /\ pc' = "done"
                /\ op' = [NoOp EXCEPT !.kind = "clean", !.status = "noop"]
           ELSE /\ pc' = "begin"
                /\ op' = [NoOp EXCEPT !.kind = "clean", !.status = "running", !.to_remove = orphan_vias(metadata),
                                      !.metadata = cleaned, !.cleaned_ids = cleaned_ids]
    /\ pre' = Snapshot
    /\ log' = <<>>
    /\ UNCHANGED <<boardVars, gridVars, dlgVars>>

(* the commit of an operation: begin_commit ... push_commit / drop_commit;
   every board call either succeeds or raises *)

BeginCommit ==
    /\ pc = "begin"
    /\ \E ok \in BOOLEAN :
           /\ log' = Called("begin_commit", ok)
           /\ IF ok THEN pc' = "remove" /\ UNCHANGED op
                    ELSE pc' = "done" /\ op' = [op EXCEPT !.status = "error", !.error = "begin_commit"]
    /\ UNCHANGED <<boardVars, pre, gridVars, dlgVars>>

\* a removal step that removes nothing
RemoveItems_Skip ==
    /\ pc = "remove"
    /\ pc' = IF op.kind = "update" THEN "create" ELSE "sync"
    /\ UNCHANGED <<boardVars, op, log, pre, gridVars, dlgVars>>

\* lines 1182-1187, 1258-1263, 1338-1339
RemoveItems ==
    /\ pc = "remove"
    /\ LET next == IF op.kind = "update" THEN "create" ELSE "sync"
       IN  IF op.to_remove = {}
           THEN pc' = next /\ UNCHANGED <<vias, log>>
           ELSE \E ok \in BOOLEAN :
                    /\ log' = Called("remove_items", ok)
                    /\ IF ok THEN pc' = next /\ vias' = [k \in DOMAIN vias \ op.to_remove |-> vias[k]]
                             ELSE pc' = "except" /\ UNCHANGED vias
    /\ UNCHANGED <<zones, metaItem, meta, nextId, op, pre, gridVars, dlgVars>>

\* lines 1189-1190: the host creates the vias and gives each a fresh id
CreateItems ==
    /\ pc = "create"
    /\ \E ok \in BOOLEAN :
           /\ log' = Called("create_items", ok)
           /\ IF ok
              THEN LET n == Len(op.new_vias)
                       ids == [i \in 1..n |-> nextId + i - 1]
                   IN  /\ vias' = [id \in DOMAIN vias \cup Range(ids) |->
                                      IF id \in DOMAIN vias THEN vias[id]
                                      ELSE [x |-> op.new_vias[id - nextId + 1][1], y |-> op.new_vias[id - nextId + 1][2],
                                            diameter |-> op.settings.ViaSize, net |-> zones[op.zone].net, layers |-> ViaLayers]]
                       /\ nextId' = nextId + n
                       /\ op' = [op EXCEPT !.created_ids = ids]
                       /\ pc' = "sync"
              ELSE pc' = "except" /\ UNCHANGED <<vias, nextId, op>>
    /\ UNCHANGED <<zones, metaItem, meta, pre, gridVars, dlgVars>>

\* the metadata the operation writes: lines 1192-1194, 1265-1266, 1327
NewMetadata ==
    LET metadata == IF pre.metaItem THEN pre.meta ELSE <<>>
        z == op.zone
        entry == IF z \in DOMAIN metadata THEN metadata[z] ELSE NoEntry
    IN  IF op.kind = "update"
        THEN WithEntry(metadata, z, [zone_name |-> zones[z].name, settings |-> op.settings,
                                     owned_via_ids |-> NewOwnedIds(op.owned_ids, op.created_ids)])
        ELSE IF op.kind = "remove"
        THEN WithEntry(metadata, z, [entry EXCEPT !.owned_via_ids = <<>>, !.zone_name = zones[z].name])
        ELSE op.metadata

\* a sync that creates a new text item whether or not one exists
SyncMetadata_AlwaysCreate ==
    /\ pc = "sync"
    /\ \E ok \in BOOLEAN :
           /\ log' = Called("create_items", ok)
           /\ IF ok THEN /\ meta' = NewMetadata
                         /\ metaItem' = TRUE
                         /\ op' = [op EXCEPT !.meta_changed = TRUE]
                         /\ pc' = "finish"
                    ELSE pc' = "except" /\ UNCHANGED <<meta, metaItem, op>>
    /\ UNCHANGED <<vias, zones, nextId, pre, gridVars, dlgVars>>

\* _sync_metadata_item: nothing when the text is unchanged, else the item is created or updated
SyncMetadata ==
    /\ pc = "sync"
    /\ IF NewMetadata = meta /\ metaItem
       THEN /\ pc' = "finish"
            /\ op' = [op EXCEPT !.meta_changed = FALSE]
            /\ UNCHANGED <<meta, metaItem, log>>
       ELSE \E ok \in BOOLEAN :
                /\ log' = Called(IF metaItem THEN "update_items" ELSE "create_items", ok)
                /\ IF ok THEN /\ meta' = NewMetadata
                              /\ metaItem' = TRUE
                              /\ op' = [op EXCEPT !.meta_changed = TRUE]
                              /\ pc' = "finish"
                         ELSE pc' = "except" /\ UNCHANGED <<meta, metaItem, op>>
    /\ UNCHANGED <<vias, zones, nextId, pre, gridVars, dlgVars>>

\* lines 1204-1208, 1276-1280, 1349-1353
FinishCommit ==
    /\ pc = "finish"
    /\ IF op.to_remove # {} \/ op.created_ids # <<>> \/ op.cleaned_ids # 0 \/ op.meta_changed
       THEN \E ok \in BOOLEAN :
                /\ log' = Called("push_commit", ok)
                /\ IF ok THEN pc' = "done" /\ op' = [op EXCEPT !.status = "ok"]
                         ELSE pc' = "except" /\ UNCHANGED op
       ELSE /\ log' = Called("drop_commit", TRUE)
            /\ pc' = "done"
            /\ op' = [op EXCEPT !.status = "ok"]
    /\ UNCHANGED <<boardVars, pre, gridVars, dlgVars>>

\* an except clause that re-raises without dropping the commit
HandleException_NoDrop ==
    /\ pc = "except"
    /\ pc' = "done"
    /\ op' = [op EXCEPT !.status = "error", !.error = "board call failed"]
    /\ UNCHANGED <<boardVars, log, pre, gridVars, dlgVars>>

\* the except clause: drop_commit unless pushed, then re-raise; the host discards
\* what the commit staged
HandleException ==
    /\ pc = "except"
    /\ log' = Called("drop_commit", TRUE)
    /\ vias' = pre.vias
    /\ meta' = pre.meta
    /\ metaItem' = pre.metaItem
    /\ pc' = "done"
    /\ op' = [op EXCEPT !.status = "error", !.error = "board call failed"]
    /\ UNCHANGED <<zones, nextId, pre, gridVars, dlgVars>>

\* run_mode logs the outcome and returns
Return ==
    /\ pc = "done"
    /\ pc' = "idle"
    /\ op' = NoOp
    /\ log' = <<>>
    /\ pre' = NoPre
    /\ UNCHANGED <<boardVars, gridVars, dlgVars>>

Next ==
    \/ UserAddVia
    \/ UserDeleteVia
    \/ ZoneEdit
    \/ ZoneFill
    \/ ZoneDelete
    \/ UpdateOpen
    \/ PromptCancel
    \/ PromptSubmit
    \/ RemoveStart
    \/ CleanStart
    \/ BeginCommit
    \/ RemoveItems
    \/ CreateItems
    \/ SyncMetadata
    \/ FinishCommit
    \/ HandleException
    \/ Return

Spec == Init /\ [][Next]_vars

TypeOK ==
    /\ DOMAIN vias \subseteq 1..MaxIds
    /\ nextId \in 1..(MaxIds + 1)
    /\ pc \in {"idle", "prompt", "begin", "remove", "create", "sync", "finish", "except", "done"}

-----------------------------------------------------------------------------
(* Claims about the IPC operations.  pre is the board when the operation     *)
(* started; log is the sequence of board calls the operation has made.       *)

PreMetadata == IF pre.metaItem THEN pre.meta ELSE <<>>

PreOwned(z) == IF z \in DOMAIN PreMetadata THEN PreMetadata[z].owned_via_ids ELSE <<>>

PreOwnedAll == UNION { Range(PreMetadata[z].owned_via_ids) : z \in DOMAIN PreMetadata }

Owned(z) == IF metaItem /\ z \in DOMAIN meta THEN meta[z].owned_via_ids ELSE <<>>

Finished(kind, status) == pc = "done" /\ op.kind = kind /\ op.status = status

CallsAt(names) == { i \in DOMAIN log : log[i].call \in names }

InsideFill(via, z) ==
    /\ z \in DOMAIN zones
    /\ zones[z].filled
    /\ _point_inside_zone_with_margin(via.x, via.y, ZoneShapes[zones[z].shape].polygons, 0)

\* C2: after a successful update of zone Z, Z's owned_via_ids are exactly the ids
\* of the vias this update created, no previously owned id is among them, and no
\* previously owned via that was live is still on the board.
C2_OwnershipReplaced ==
    Finished("update", "ok") =>
        /\ Range(Owned(op.zone)) = DOMAIN vias \ DOMAIN pre.vias
        /\ Len(Owned(op.zone)) = Cardinality(DOMAIN vias \ DOMAIN pre.vias)
        /\ Len(Owned(op.zone)) = Len(op.new_vias)
        /\ Range(Owned(op.zone)) \cap Range(PreOwned(op.zone)) = {}
        /\ Range(PreOwned(op.zone)) \cap DOMAIN pre.vias \cap DOMAIN vias = {}

\* a successful update of a zone that owned live vias before
C2_Witness ==
    /\ Finished("update", "ok")
    /\ Range(PreOwned(op.zone)) \cap DOMAIN pre.vias # {}
    /\ Owned(op.zone) # <<>>

\* C5: a via that is in no ownership record is removed only by an update or
\* remove whose user-vias prompt was answered yes, and only if it is on the
\* selected zone's net inside that zone's fill; every via that stays is unchanged.
C5_NonOwnedProtected ==
    /\ \A id \in (DOMAIN pre.vias \ DOMAIN vias) \ PreOwnedAll :
           /\ op.kind \in {"update", "remove"}
           /\ op.answer
           /\ pre.vias[id].net = zones[op.zone].net
           /\ InsideFill(pre.vias[id], op.zone)
    /\ \A id \in DOMAIN pre.vias \cap DOMAIN vias : vias[id] = pre.vias[id]

\* an operation that removed a user via on the zone's net and left one of another net
C5_Witness ==
    /\ pc = "done"
    /\ op.status = "ok"
    /\ op.answer
    /\ (DOMAIN pre.vias \ DOMAIN vias) \ PreOwnedAll # {}
    /\ \E id \in DOMAIN vias \cap DOMAIN pre.vias : id \notin PreOwnedAll /\ vias[id].net # zones[op.zone].net

\* C7: after clean-orphans every record keeps exactly its listed ids whose via is
\* live, whose zone exists and whose position is inside the zone's fill; listed
\* live vias failing that are off the board; nothing else is removed.
C7_OrphanScan ==
    (pc = "done" /\ op.kind = "clean" /\ op.status \in {"ok", "noop"}) =>
        LET Good(zid, vid) == vid \in DOMAIN pre.vias /\ InsideFill(pre.vias[vid], zid)
            Bad == { vid \in DOMAIN pre.vias : \E zid \in DOMAIN PreMetadata :
                         vid \in Range(PreOwned(zid)) /\ ~Good(zid, vid) }
        IN  /\ \A zid \in DOMAIN PreMetadata :
                   LET Keep(vid) == Good(zid, vid)
                   IN  Owned(zid) = SelectSeq(PreOwned(zid), Keep)
            /\ DOMAIN vias = DOMAIN pre.vias \ Bad

\* a scan that removed an orphan via and dropped a stale id
C7_Witness ==
    /\ Finished("clean", "ok")
    /\ DOMAIN pre.vias \ DOMAIN vias # {}
    /\ PreOwnedAll \ DOMAIN pre.vias # {}
    /\ \E zid \in DOMAIN meta : Owned(zid) # <<>>

\* C8: remove-array on a zone whose record lists an id leaves the record empty
\* and every listed live via off the board; without a record, or with an empty
\* one, it changes nothing and begins no commit.
C8_RemoveClearsOwnership ==
    /\ Finished("remove", "ok") =>
           /\ PreOwned(op.zone) # <<>>
           /\ Owned(op.zone) = <<>>
           /\ Range(PreOwned(op.zone)) \cap DOMAIN vias = {}
    /\ (pc \in {"begin", "done"} /\ op.kind = "remove" /\ PreOwned(op.zone) = <<>>) =>
           /\ op.status = "noop"
           /\ log = <<>>
           /\ Snapshot = pre

\* a remove-array that took live owned vias off the board
C8_Witness ==
    /\ Finished("remove", "ok")
    /\ Range(PreOwned(op.zone)) \cap DOMAIN pre.vias # {}

Begins == CallsAt({"begin_commit"})

Mutations == CallsAt({"remove_items", "create_items", "update_items"})

Finishers == CallsAt({"push_commit", "drop_commit"})

\* begin_commit at most once; every mutation after a successful begin_commit
\* and before any push_commit or drop_commit
MutationsInsideCommit ==
    /\ Cardinality(Begins) <= 1
    /\ \A m \in Mutations :
           /\ \E b \in Begins : log[b].ok /\ b < m
           /\ \A f \in Finishers : m < f

BegunAndOver == pc = "done" /\ \E b \in Begins : log[b].ok

\* C4 (as stated): begin_commit at most once, mutations between begin and
\* finish, and a begun commit is finished by exactly one call of push_commit or
\* drop_commit, push when every call succeeded and drop otherwise.
C4_ExactlyOneFinisher ==
    /\ MutationsInsideCommit
    /\ BegunAndOver =>
           /\ Cardinality(Finishers) = 1
           /\ \A f \in Finishers : (log[f].call = "push_commit") <=> (\A i \in DOMAIN log : log[i].ok)

\* C4 (amended): as above, except that a push_commit that itself raises is
\* followed by one drop_commit; a push_commit that succeeds is the only
\* finisher, and without a push_commit there is exactly one drop_commit.
C4_OneFinisherOrFailedPushThenDrop ==
    /\ MutationsInsideCommit
    /\ BegunAndOver =>
           LET pushes == CallsAt({"push_commit"})
               drops == CallsAt({"drop_commit"})
           IN  /\ Cardinality(pushes) <= 1
               /\ Cardinality(drops) <= 1
               /\ Finishers # {}
               /\ \A f \in pushes : log[f].ok <=> drops = {}
               /\ \A f \in pushes, d \in drops : f < d
               /\ (pushes # {} /\ drops = {}) <=> (\A i \in DOMAIN log : log[i].ok)
               /\ \A i \in DOMAIN log : ~log[i].ok => (drops # {} /\ op.status = "error")

\* an operation whose push_commit raised and whose commit was then dropped
C4_Witness ==
    /\ BegunAndOver
    /\ \E f \in CallsAt({"push_commit"}) : ~log[f].ok
    /\ CallsAt({"drop_commit"}) # {}
    /\ Mutations # {}

-----------------------------------------------------------------------------
(* C1 *)

PairwiseApart(pts, d) ==
    \A i, j \in DOMAIN pts : i # j => Sq(pts[i][1] - pts[j][1]) + Sq(pts[i][2] - pts[j][2]) >= d * d

\* C1: in the result of every grid run, any two distinct accepted points are at
\* centre distance >= the via outer diameter, for odd and even via sizes.
C1_SelfReservationSpacing ==
    gOut.kind \in {"phase", "search"} => PairwiseApart(gOut.res.new_vias, gIn.settings.ViaSize)

-----------------------------------------------------------------------------
(* C9 *)

\* the phase pairs _build_candidates explores on the inputs g
ExploredPhases(g) ==
    Range(_phase_offsets(g.settings.HSpacing, g.settings.HOffset, x_phase_samples(g.center_segments, g.maximize_vias)))
        \X Range(_phase_offsets(g.settings.VSpacing, g.settings.VOffset, y_phase_samples(g.maximize_vias)))

BasePhase(g) == <<g.settings.HOffset % g.settings.HSpacing, g.settings.VOffset % g.settings.VSpacing>>

\* C9 (as stated): the phase search never accepts fewer vias than a single grid
\* run at the zero phase offset, in every mode including plain grid.
C9_NotBelowZeroPhase ==
    gOut.kind = "search" => Len(gOut.res.new_vias) >= Len(GridRunAt(gIn, 0, 0).new_vias)

\* C9 (amended): the phase search never accepts fewer vias than a single grid run
\* at the user's base phase (offset mod pitch), nor fewer than a run at any phase
\* it explores; the zero phase is one of those only when it is explored.
C9_NotBelowBasePhase ==
    gOut.kind = "search" =>
        /\ BasePhase(gIn) \in ExploredPhases(gIn)
        /\ \A ph \in ExploredPhases(gIn) : Len(gOut.res.new_vias) >= Len(GridRunAt(gIn, ph[1], ph[2]).new_vias)

\* a search that explored several phases and beat the run at the user's base phase
C9_Witness ==
    /\ gOut.kind = "search"
    /\ Cardinality(ExploredPhases(gIn)) > 1
    /\ Len(gOut.res.new_vias) > Len(GridRunAt(gIn, BasePhase(gIn)[1], BasePhase(gIn)[2]).new_vias)


-----------------------------------------------------------------------------
(* The dialog: src/viastitching_dialog.py.  Lengths that the code halves   *)
(* (the edge margin viasize / 2 + edge_margin, the staggered row shift     *)
(* sx / 2.0) are carried doubled, so that every value stays an integer.    *)

__warn_via_count_threshold__ == 100

\* Python round() of n / d for d > 0: ties go to the even neighbour
PyRoundDiv(n, d) ==
    LET q == n \div d
        r == n % d
    IN  IF 2 * r < d THEN q
        ELSE IF 2 * r > d THEN q + 1
        ELSE IF q % 2 = 0 THEN q ELSE q + 1

\* zone.HitTestFilledArea(layer, point, 0) of the host: the point is in the fill
HitTestFilledArea(zone, x, y) == _point_inside_zone_with_margin(x, y, _zone_polygons(zone), 0)

\* ToBoardPoint(margin * cos(angle), margin * sin(angle)) over the 32 sample
\* angles, for the margin margin2 / 2
CircleSampleOffsets(margin2) ==
    IF margin2 = 2 THEN
        { <<-1, -1>>, <<-1, 0>>, <<-1, 1>>, <<0, -1>>, <<0, 1>>, <<1, -1>>, <<1, 0>>, <<1, 1>> }
    ELSE IF margin2 = 4 THEN
        { <<-2, -1>>, <<-2, 0>>, <<-2, 1>>, <<-1, -2>>, <<-1, -1>>, <<-1, 1>>, <<-1, 2>>, <<0, -2>>,
          <<0, 2>>, <<1, -2>>, <<1, -1>>, <<1, 1>>, <<1, 2>>, <<2, -1>>, <<2, 0>>, <<2, 1>> }
    ELSE
        { <<-3, -1>>, <<-3, 0>>, <<-3, 1>>, <<-2, -2>>, <<-2, 2>>, <<-1, -3>>, <<-1, 3>>, <<0, -3>>,
          <<0, 3>>, <<1, -3>>, <<1, 3>>, <<2, -2>>, <<2, 2>>, <<3, -1>>, <<3, 0>>, <<3, 1>> }

IsInsideSelectedZone(zone, x, y) == HitTestFilledArea(zone, x, y)

\* the point and, for a positive margin, its 32 circle samples are all in the fill
IsPointInsideZoneWithMargin(zone, x, y, margin2) ==
    /\ HitTestFilledArea(zone, x, y)
    /\ \/ margin2 <= 0
       \/ \A o \in CircleSampleOffsets(margin2) : HitTestFilledArea(zone, x + o[1], y + o[2])

\* the context of the error ParseAndValidateInputs shows, "ok" when it returns the inputs
ParseAndValidateInputs(inputs) ==
    IF inputs.maximize_vias /\ inputs.target_mode THEN "validate_mode_conflict"
    ELSE IF ~inputs.maximize_vias /\ (inputs.step_x <= 0 \/ inputs.step_y <= 0) THEN "validate_spacing"
    ELSE IF inputs.target_mode /\ inputs.target_count <= 0 THEN "validate_target_count"
    ELSE IF inputs.viasize <= 0 \/ inputs.drillsize <= 0 THEN "validate_via_positive"
    ELSE IF inputs.drillsize >= inputs.viasize THEN "validate_drill_lt_via"
    ELSE IF inputs.edge_margin < 0 THEN "validate_edge_margin"
    ELSE IF inputs.pad_margin < 0 THEN "validate_pad_margin"
    ELSE "ok"

\* CheckOverlap of a probe via against the vias among the overlapping items
CheckOverlap(overlappings, x, y, width) ==
    \E id \in DOMAIN overlappings :
        4 * (Sq(x - overlappings[id].x) + Sq(y - overlappings[id].y)) < Sq(width + overlappings[id].diameter)

\* the cells (dx, dy) of one ring of the spiral, in the order the code visits them
SpiralRing(radius) ==
    IF radius = 0 THEN << <<0, 0>> >>
    ELSE [i \in 1..(2 * radius + 1) |-> <<i - 1 - radius, -radius>>]
         \o [i \in 1..(2 * radius) |-> <<radius, i - radius>>]
         \o [i \in 1..(2 * radius) |-> <<radius - i, radius>>]
         \o [i \in 1..(2 * radius - 1) |-> <<-radius, radius - i>>]

Abs(a) == IF a < 0 THEN -a ELSE a

\* the pattern points as <<2 * xv, 2 * yv>>, in generation order
_iter_pattern_points(pattern_name, phase_x, phase_y, step_px, step_py, bbox) ==
    LET left == bbox[1]
        top == bbox[2]
        right == bbox[3]
        bottom == bbox[4]
        sx == Max2(1, step_px)
        sy == Max2(1, step_py)
        base_x == left + ((phase_x - left) % sx)
        base_y == top + ((phase_y - top) % sy)
    IN  IF pattern_name = "Spiral" THEN
            LET kx0 == PyRoundDiv(left + right - 2 * base_x, 2 * sx)
                ky0 == PyRoundDiv(top + bottom - 2 * base_y, 2 * sy)
                grid_cx == base_x + kx0 * sx
                grid_cy == base_y + ky0 * sy
                kx_min == CeilDiv(left - grid_cx, sx)
                kx_max == (right - grid_cx) \div sx
                ky_min == CeilDiv(top - grid_cy, sy)
                ky_max == (bottom - grid_cy) \div sy
                max_radius == Max2(Max2(Abs(kx_min), Abs(kx_max)), Max2(Abs(ky_min), Abs(ky_max)))
                kept(c) ==
                    /\ c[1] >= kx_min /\ c[1] <= kx_max /\ c[2] >= ky_min /\ c[2] <= ky_max
                    /\ grid_cx + c[1] * sx >= left /\ grid_cx + c[1] * sx <= right
                    /\ grid_cy + c[2] * sy >= top /\ grid_cy + c[2] * sy <= bottom
                cells == SelectSeq(Flatten([r \in 1..(max_radius + 1) |-> SpiralRing(r - 1)]), kept)
            IN  IF kx_min > kx_max \/ ky_min > ky_max THEN <<>>
                ELSE [i \in DOMAIN cells |-> <<2 * (grid_cx + cells[i][1] * sx), 2 * (grid_cy + cells[i][2] * sy)>>]
        ELSE
            LET staggered == (pattern_name = "45-degree offset")
                row_start(row_index) == 2 * base_x + (IF staggered /\ row_index % 2 = 1 THEN sx ELSE 0)
                row(row_index) ==
                    [k \in 1..((2 * right - row_start(row_index)) \div (2 * sx) + 1) |->
                        <<row_start(row_index) + 2 * sx * (k - 1), 2 * (base_y + row_index * sy)>>]
            IN  Flatten([r \in 1..((bottom - base_y) \div sy + 1) |-> row(r - 1)])


\* a window that looks only at the cell itself and the cells after it
NeighbourWindow_Forward(g, span) == g..(g + span)

\* range(g - span, g + span + 1): the cells looked up around cell g
NeighbourWindow(g, span) == (g - span)..(g + span)

\* the hashed sibling test of _run_phase and of _evaluate_target_pattern: the
\* accepted points are binned by (x // cell_size, y // cell_size), and only the
\* points in the 3 x 3 cells around the candidate's cell are measured
_conflicts_with_accepted(accepted, px, py, cell_size, spacing) ==
    \E i \in DOMAIN accepted :
        /\ accepted[i][1] \div cell_size \in NeighbourWindow(px \div cell_size, 1)
        /\ accepted[i][2] \div cell_size \in NeighbourWindow(py \div cell_size, 1)
        /\ Sq(px - accepted[i][1]) + Sq(py - accepted[i][2]) < spacing * spacing

\* one deterministic pattern attempt at a phase: points are tested in generation
\* order against the edge margin, the points accepted so far (looked up in the
\* 3 x 3 neighbourhood of cells of side spacing_nm) and the board's vias
_evaluate_target_pattern(zone, overlappings, inputs, pattern_name, phase_x, phase_y, min_spacing_nm) ==
    LET spacing_nm == Max2(1, min_spacing_nm)
        cell_size == Max2(1, spacing_nm)
        required_edge_margin2 == inputs.viasize + 2 * inputs.edge_margin
        RECURSIVE scan(_, _, _)
        scan(pts, k, acc) ==
            IF k > Len(pts) THEN acc
            ELSE LET px == PyRoundHalf(pts[k][1])
                     py == PyRoundHalf(pts[k][2])
                     tested == [acc EXCEPT !.candidates = @ + 1]
                 IN  IF ~IsPointInsideZoneWithMargin(zone, px, py, required_edge_margin2)
                     THEN scan(pts, k + 1, [tested EXCEPT !.rejected_edge_margin = @ + 1])
                     ELSE IF _conflicts_with_accepted(acc.accepted_points, px, py, cell_size, spacing_nm)
                               \/ CheckOverlap(overlappings, px, py, inputs.viasize)
                     THEN scan(pts, k + 1, [tested EXCEPT !.inside_zone = @ + 1, !.rejected_overlap = @ + 1])
                     ELSE scan(pts, k + 1, [tested EXCEPT !.inside_zone = @ + 1,
                                                          !.accepted_points = Append(@, <<px, py>>)])
    IN  scan(_iter_pattern_points(pattern_name, phase_x, phase_y, inputs.step_x, inputs.step_y,
                                  ZoneShapes[zone.shape].bbox),
             1, [candidates |-> 0, inside_zone |-> 0, rejected_overlap |-> 0, rejected_edge_margin |-> 0,
                 accepted_points |-> <<>>, phase_x |-> phase_x, phase_y |-> phase_y])

\* a selection that keeps every accepted point
_select_spread_points_All(points, wanted_count, bbox) == points

\* farthest-point selection of wanted_count points: the seed is the point nearest
\* the centre of the bounding box, then the point farthest from the chosen ones is
\* added; ties go to the smaller y, then the smaller x, then the earlier point
_select_spread_points(points, wanted_count, bbox) ==
    LET n == Len(points)
        centre2(i) == Sq(2 * points[i][1] - (bbox[1] + bbox[3])) + Sq(2 * points[i][2] - (bbox[2] + bbox[4]))
        seed_key(i) == <<centre2(i), points[i][2], points[i][1], i>>
        seed_index == CHOOSE i \in 1..n : \A j \in 1..n : i = j \/ TupleGT(seed_key(j), seed_key(i))
        d2(i, j) == Sq(points[i][1] - points[j][1]) + Sq(points[i][2] - points[j][2])
        RECURSIVE grow(_, _)
        grow(chosen, min_dist_sq) ==
            LET rest == (1..n) \ Range(chosen)
                key(i) == <<min_dist_sq[i], -points[i][2], -points[i][1], -i>>
                best_idx == CHOOSE i \in rest : \A j \in rest : i = j \/ TupleGT(key(i), key(j))
            IN  IF Len(chosen) >= wanted_count \/ rest = {} THEN chosen
                ELSE grow(Append(chosen, best_idx),
                          [i \in 1..n |-> Min2(min_dist_sq[i], d2(i, best_idx))])
    IN  IF wanted_count <= 0 \/ n <= wanted_count THEN points
        ELSE Only({ [k \in DOMAIN chosen_all |-> points[chosen_all[k]]] :
                    chosen_all \in { Only({ grow(<<seed>>, [i \in 1..n |-> d2(i, seed)]) : seed \in {seed_index} }) } })

\* PromptLargePlacementWarning: asked only from the threshold on
PromptLargePlacementWarning(predicted_count, proceed) ==
    predicted_count < __warn_via_count_threshold__ \/ proceed

\* the score of a pattern attempt, larger is better
TargetScore(trial) ==
    <<Len(trial.accepted_points), -(trial.rejected_overlap + trial.rejected_edge_margin), -trial.rejected_edge_margin>>

\* the best attempt over the phases, and the points to place when it reaches the target
_run_target_pattern_first(zone, overlappings, inputs, pattern_name, target_limit, min_spacing_nm, proceed) ==
    LET x_phases == IF pattern_name = "Spiral" THEN <<inputs.offset_x>>
                    ELSE _phase_offsets(inputs.step_x, inputs.offset_x, 8)
        y_phases == IF pattern_name = "Spiral" THEN <<inputs.offset_y>>
                    ELSE _phase_offsets(inputs.step_y, inputs.offset_y, 8)
        phases == Flatten([j \in DOMAIN y_phases |-> [i \in DOMAIN x_phases |-> <<x_phases[i], y_phases[j]>>]])
        trial(k) == _evaluate_target_pattern(zone, overlappings, inputs, pattern_name,
                                             phases[k][1], phases[k][2], min_spacing_nm)
        RECURSIVE search(_, _)
        search(k, best) ==
            IF k > Len(phases) THEN best
            ELSE Only({ IF TupleGT(TargetScore(t), TargetScore(best)) THEN search(k + 1, t) ELSE search(k + 1, best) :
                        t \in {trial(k)} })
        finish(best) ==
            LET available == Len(best.accepted_points)
                success == target_limit > 0 /\ available >= target_limit
            IN  IF ~success
                THEN [success |-> FALSE, canceled |-> FALSE, inserted |-> <<>>, attempt |-> best,
                      target_available |-> available, target_requested |-> target_limit]
                ELSE Only({ IF Len(points_to_place) > 0 /\ ~PromptLargePlacementWarning(Len(points_to_place), proceed)
                            THEN [success |-> FALSE, canceled |-> TRUE, inserted |-> <<>>, attempt |-> best,
                                  target_available |-> available, target_requested |-> target_limit]
                            ELSE [success |-> TRUE, canceled |-> FALSE, inserted |-> points_to_place, attempt |-> best,
                                  target_available |-> available, target_requested |-> target_limit] :
                            points_to_place \in {_select_spread_points(best.accepted_points, target_limit,
                                                                       ZoneShapes[zone.shape].bbox)} })
    IN  Only({ finish(best) : best \in {search(2, trial(1))} })


\* the runs of x, probed from left to right in steps of probe_step, that are
\* inside the fill with the required edge margin
_row_inside_intervals(zone, inputs, yp) ==
    LET left == ZoneShapes[zone.shape].bbox[1]
        right == ZoneShapes[zone.shape].bbox[3]
        probe_step == Max2(1, inputs.step_x \div 10)
        RECURSIVE probe(_, _, _)
        probe(xprobe, run_start, intervals) ==
            IF xprobe > right
            THEN (IF run_start >= left THEN Append(intervals, <<run_start, right>>) ELSE intervals)
            ELSE IF IsPointInsideZoneWithMargin(zone, xprobe, yp, inputs.viasize + 2 * inputs.edge_margin)
            THEN probe(xprobe + probe_step, IF run_start >= left THEN run_start ELSE xprobe, intervals)
            ELSE IF run_start >= left
            THEN probe(xprobe + probe_step, left - 1, Append(intervals, <<run_start, xprobe - probe_step>>))
            ELSE probe(xprobe + probe_step, left - 1, intervals)
    IN  probe(left, left - 1, <<>>)

_grid_count_in_interval(start_x, a, b, step_x) ==
    IF b < a THEN 0
    ELSE Max2(0, ((b - start_x) \div step_x) - CeilDiv(a - start_x, step_x) + 1)

\* the positions _build_row_positions puts in one inside run [a, b]: n points
\* centred in the run, or, without centring, the lattice points in the run
RowPositionsInRun(a, b, start_x, step_x, center_segments, maximize_vias) ==
    LET n == IF maximize_vias THEN (b - a) \div step_x + 1 ELSE _grid_count_in_interval(start_x, a, b, step_x)
    IN  IF b < a \/ n <= 0 THEN {}
        ELSE IF center_segments
        THEN { PyRoundHalf(2 * a + (b - a) - (n - 1) * step_x + 2 * i * step_x) : i \in 0..(n - 1) }
        ELSE { start_x + k * step_x : k \in CeilDiv(a - start_x, step_x)..((b - start_x) \div step_x) }

\* the x positions of a row: the lattice from start_x, or, with centred
\* segments or in maximize mode, the positions of every inside run
_build_row_positions(zone, inputs, yp, phase_x) ==
    LET left == ZoneShapes[zone.shape].bbox[1]
        right == ZoneShapes[zone.shape].bbox[3]
        start_x == left + ((phase_x - left) % inputs.step_x)
    IN  IF ~inputs.center_segments /\ ~inputs.maximize_vias
        THEN [k \in 1..((right - start_x) \div inputs.step_x + 1) |-> start_x + (k - 1) * inputs.step_x]
        ELSE Only({ SetToSortedSeq({ x \in UNION { RowPositionsInRun(ivs[i][1], ivs[i][2], start_x, inputs.step_x,
                                                                       inputs.center_segments, inputs.maximize_vias) :
                                                     i \in DOMAIN ivs } : left <= x /\ x <= right }) :
                    ivs \in {_row_inside_intervals(zone, inputs, yp)} })

\* a phase run that adds a via for every accepted point, dry run or not
PhaseAdded_DryAdds(added, apply_changes, p) == Append(added, p)

\* the vias a phase run has added to the board: a dry run counts the accepted
\* point and adds nothing
PhaseAdded(added, apply_changes, p) == IF apply_changes THEN Append(added, p) ELSE added

\* one run of the grid at a phase, jitter off: every row position is tested
\* against the edge margin, the points accepted so far and the overlapping
\* items; inserted counts the accepted points, added holds the vias put on the
\* board, ensured_group tells whether EnsureCurrentZoneGroup was reached
_run_phase(zone, overlappings, inputs, phase_x, phase_y, apply_changes) ==
    LET top == ZoneShapes[zone.shape].bbox[2]
        bottom == ZoneShapes[zone.shape].bbox[4]
        via_clearance == Max2(1, inputs.viasize)
        cell_size == Max2(1, via_clearance)
        RECURSIVE scan(_, _, _, _)
        scan(xs, yv, i, acc) ==
            IF i > Len(xs) THEN acc
            ELSE IF ~IsPointInsideZoneWithMargin(zone, xs[i], yv, inputs.viasize + 2 * inputs.edge_margin)
            THEN scan(xs, yv, i + 1, [acc EXCEPT !.candidates = @ + 1, !.rejected_edge_margin = @ + 1])
            ELSE IF _conflicts_with_accepted(acc.accepted, xs[i], yv, cell_size, via_clearance)
                      \/ CheckOverlap(overlappings, xs[i], yv, inputs.viasize)
            THEN scan(xs, yv, i + 1, [acc EXCEPT !.candidates = @ + 1, !.inside_zone = @ + 1,
                                                 !.rejected_overlap = @ + 1])
            ELSE scan(xs, yv, i + 1, [acc EXCEPT !.candidates = @ + 1, !.inside_zone = @ + 1,
                                                 !.inserted = @ + 1,
                                                 !.accepted = Append(@, <<xs[i], yv>>),
                                                 !.added = PhaseAdded(@, apply_changes, <<xs[i], yv>>),
                                                 !.ensured_group = @ \/ apply_changes])
        RECURSIVE rows(_, _)
        rows(yv, acc) ==
            IF yv > bottom THEN acc
            ELSE rows(yv + inputs.step_y, scan(_build_row_positions(zone, inputs, yv, phase_x), yv, 1, acc))
    IN  rows(top + ((phase_y - top) % inputs.step_y),
             [inserted |-> 0, candidates |-> 0, inside_zone |-> 0, rejected_overlap |-> 0, rejected_edge_margin |-> 0,
              accepted |-> <<>>, added |-> <<>>, ensured_group |-> FALSE])

\* the score of a dry run, larger is better
GridScore(trial) ==
    <<trial.inserted, -(trial.rejected_overlap + trial.rejected_edge_margin), -trial.rejected_edge_margin>>

\* what the phase search of a run left behind: no search
NoSearch == [ran |-> FALSE, predicted |-> 0, dry_runs |-> 0, dry_added |-> <<>>, dry_group |-> FALSE, applied |-> 0]

\* FillupArea's grid branch: a dry run at every phase, the first phase of the
\* best score is run again applying.  best carries the best dry run, added the
\* vias the dry runs put on the board and group whether one of them reached
\* EnsureCurrentZoneGroup
\* (phase is the phase run again, stats what that run returned)
_run_grid_phase_search(zone, overlappings, inputs, proceed) ==
    LET x_phases == _phase_offsets(inputs.step_x, inputs.offset_x, IF ~inputs.center_segments THEN 6 ELSE 1)
        y_phases == _phase_offsets(inputs.step_y, inputs.offset_y, 8)
        phases == Flatten([j \in DOMAIN y_phases |-> [i \in DOMAIN x_phases |-> <<x_phases[i], y_phases[j]>>]])
        RECURSIVE search(_, _)
        search(k, s) ==
            IF k > Len(phases) THEN s
            ELSE Only({ search(k + 1,
                            [best |-> IF s.dry_runs = 0 \/ TupleGT(GridScore(trial), GridScore(s.best)) THEN trial ELSE s.best,
                             best_phase |-> IF s.dry_runs = 0 \/ TupleGT(GridScore(trial), GridScore(s.best))
                                            THEN phases[k] ELSE s.best_phase,
                             dry_runs |-> s.dry_runs + 1,
                             added |-> s.added \o trial.added,
                             group |-> s.group \/ trial.ensured_group]) :
                        trial \in {_run_phase(zone, overlappings, inputs, phases[k][1], phases[k][2], FALSE)} })
        finish(s) ==
            IF s.best.inserted > 0 /\ ~PromptLargePlacementWarning(s.best.inserted, proceed)
            THEN [canceled |-> TRUE, inserted |-> s.added, phase |-> s.best_phase, stats |-> s.best,
                  phase_search |-> [ran |-> TRUE, predicted |-> s.best.inserted, dry_runs |-> s.dry_runs,
                                    dry_added |-> s.added, dry_group |-> s.group, applied |-> 0]]
            ELSE Only({ [canceled |-> FALSE, inserted |-> s.added \o applied.added,
                         phase |-> s.best_phase, stats |-> applied,
                         phase_search |-> [ran |-> TRUE, predicted |-> s.best.inserted, dry_runs |-> s.dry_runs,
                                           dry_added |-> s.added, dry_group |-> s.group,
                                           applied |-> applied.inserted]] :
                        applied \in {_run_phase(zone, overlappings, inputs, s.best_phase[1], s.best_phase[2], TRUE)} })
    IN  Only({ finish(s) :
               s \in {search(1, [best |-> <<>>, best_phase |-> <<inputs.offset_x, inputs.offset_y>>, dry_runs |-> 0,
                                 added |-> <<>>, group |-> FALSE])} })

\* last_fill_stats of a run that returned before writing it
NoStats == [written |-> FALSE, inserted |-> 0, target_available |-> 0, target_requested |-> 0]

\* a best-effort run that leaves out the last accepted point
BestEffortPoints_DropLast(target_attempt) ==
    SubSeq(target_attempt.attempt.accepted_points, 1, Len(target_attempt.attempt.accepted_points) - 1)

\* best_points of the best-effort branch: every accepted point of the best attempt
BestEffortPoints(target_attempt) == target_attempt.attempt.accepted_points

\* FillupArea in target-count mode and in grid mode (maximize mode is not among
\* the inputs).  In target-count mode the heuristic fallback prompt is answered
\* no, so a missed target places the best attempt's points (best effort).
FillupArea(zone, overlappings, inputs, proceed) ==
    LET via_clearance == Max2(1, inputs.viasize)
        spacing_min_target == Max2(via_clearance, Min2(inputs.step_x, inputs.step_y))
        apply(target_attempt) ==
            LET best_points == BestEffortPoints(target_attempt)
                deterministic_available == target_attempt.target_available
            IN  IF target_attempt.canceled THEN [canceled |-> TRUE, inserted |-> <<>>]
                ELSE IF target_attempt.success
                THEN [canceled |-> FALSE, inserted |-> target_attempt.inserted,
                      target_available |-> target_attempt.target_available,
                      target_requested |-> target_attempt.target_requested]
                ELSE IF Len(best_points) > 0 /\ ~PromptLargePlacementWarning(Len(best_points), proceed)
                THEN [canceled |-> TRUE, inserted |-> <<>>]
                ELSE [canceled |-> FALSE, inserted |-> best_points,
                      target_available |-> deterministic_available, target_requested |-> inputs.target_count]
        report(applied, best_points) ==
            IF applied.canceled
            THEN [result |-> "canceled", error |-> "ok", inserted |-> <<>>, attempt |-> best_points,
                  last_fill_stats |-> NoStats, phase_search |-> NoSearch]
            ELSE [result |-> IF Len(applied.inserted) > 0 THEN "filled" ELSE "empty", error |-> "ok",
                  inserted |-> applied.inserted, attempt |-> best_points,
                  last_fill_stats |-> [written |-> TRUE, inserted |-> Len(applied.inserted),
                                       target_available |-> applied.target_available,
                                       target_requested |-> applied.target_requested],
                  phase_search |-> NoSearch]
        report_grid(applied) ==
            IF applied.canceled
            THEN [result |-> "canceled", error |-> "ok", inserted |-> applied.inserted, attempt |-> <<>>,
                  last_fill_stats |-> NoStats, phase_search |-> applied.phase_search]
            ELSE [result |-> IF applied.phase_search.applied > 0 THEN "filled" ELSE "empty", error |-> "ok",
                  inserted |-> applied.inserted, attempt |-> <<>>,
                  last_fill_stats |-> [written |-> TRUE, inserted |-> applied.phase_search.applied,
                                       target_available |-> 0, target_requested |-> 0],
                  phase_search |-> applied.phase_search]
    IN  IF ParseAndValidateInputs(inputs) # "ok"
        THEN [result |-> "invalid", error |-> ParseAndValidateInputs(inputs), inserted |-> <<>>, attempt |-> <<>>,
              last_fill_stats |-> NoStats, phase_search |-> NoSearch]
        ELSE IF ~inputs.target_mode
        THEN Only({ report_grid(applied) : applied \in {_run_grid_phase_search(zone, overlappings, inputs, proceed)} })
        ELSE Only({ report(apply(target_attempt), target_attempt.attempt.accepted_points) :
                    target_attempt \in {_run_target_pattern_first(zone, overlappings, inputs, inputs.target_pattern,
                                                                  inputs.target_count, spacing_min_target, proceed)} })

\* owned_via_ids after RefreshOwnedViasState; the group holds the owned vias
RefreshOwnedViasState(board_vias, owned_via_ids) == owned_via_ids \cap DOMAIN board_vias

CountExistingOwnedVias(board_vias, owned_via_ids) ==
    Cardinality(RefreshOwnedViasState(board_vias, owned_via_ids))

\* vias on the zone's net inside its fill that the plugin does not own
CountUserNetViasInZone(board_vias, zone, owned_via_ids) ==
    Cardinality({ id \in DOMAIN board_vias :
                    /\ board_vias[id].net = zone.net
                    /\ id \notin owned_via_ids
                    /\ IsInsideSelectedZone(zone, board_vias[id].x, board_vias[id].y) })

\* the owned vias PruneGroupedViasOutsideZone removes: those not inside the fill
\* with their radius as margin
PruneGroupedViasOutsideZone(board_vias, zone, owned_via_ids) ==
    { id \in DOMAIN board_vias \cap owned_via_ids :
        ~IsPointInsideZoneWithMargin(zone, board_vias[id].x, board_vias[id].y, board_vias[id].diameter) }

\* the vias ClearArea removes: the owned ones, and on request the user's vias on
\* the zone's net inside the fill
ClearArea(board_vias, zone, owned_via_ids, include_user_vias) ==
    { id \in DOMAIN board_vias :
        \/ id \in RefreshOwnedViasState(board_vias, owned_via_ids)
        \/ /\ include_user_vias
           /\ board_vias[id].net = zone.net
           /\ IsInsideSelectedZone(zone, board_vias[id].x, board_vias[id].y) }

\* board.Remove of a set of vias
SafeRemoveVia(board_vias, ids) == [id \in DOMAIN board_vias \ ids |-> board_vias[id]]

\* the vias _add_real_via adds for the points, with ids from first_id on
_add_real_via(board_vias, points, first_id, inputs, zone) ==
    [id \in DOMAIN board_vias \cup { first_id + k - 1 : k \in DOMAIN points } |->
        IF id \in DOMAIN board_vias THEN board_vias[id]
        ELSE [x |-> points[id - first_id + 1][1], y |-> points[id - first_id + 1][2],
              diameter |-> inputs.viasize, net |-> zone.net, layers |-> ViaLayers]]

-----------------------------------------------------------------------------
(* Specification of the dialog on a board *)

\* shapes of the selected zone
DialogShapes == {1, 3}

\* what the fields hold when Ok is pressed: target-count settings that parse,
\* the centring checkbox at its default
ValidInputs ==
    [viasize : {2}, drillsize : {1}, step_x : {1, 2, 3}, step_y : {2, 3}, offset_x : {0, 1}, offset_y : {0},
     edge_margin : {0, 1}, pad_margin : {0}, maximize_vias : {FALSE}, target_mode : {TRUE},
     target_count : {1, 2, 3, 5}, target_pattern : {"Grid", "45-degree offset", "Spiral"},
     center_segments : {TRUE}]

\* grid settings that parse, jitter off
GridModeInputs ==
    [viasize : {2}, drillsize : {1}, step_x : {2, 3}, step_y : {2, 3}, offset_x : {0, 1}, offset_y : {0},
     edge_margin : {0, 1}, pad_margin : {0}, maximize_vias : {FALSE}, target_mode : {FALSE},
     target_count : {2}, target_pattern : {"Grid"}, center_segments : BOOLEAN]

BaseInputs ==
    [viasize |-> 2, drillsize |-> 1, step_x |-> 2, step_y |-> 2, offset_x |-> 0, offset_y |-> 0,
     edge_margin |-> 0, pad_margin |-> 0, maximize_vias |-> FALSE, target_mode |-> TRUE,
     target_count |-> 2, target_pattern |-> "Grid", center_segments |-> TRUE]

\* one set of fields for each check of ParseAndValidateInputs that fails
InvalidInputs ==
    { [BaseInputs EXCEPT !.maximize_vias = TRUE],
      [BaseInputs EXCEPT !.step_x = 0],
      [BaseInputs EXCEPT !.target_count = 0],
      [BaseInputs EXCEPT !.viasize = 0],
      [BaseInputs EXCEPT !.drillsize = 2],
      [BaseInputs EXCEPT !.edge_margin = -1],
      [BaseInputs EXCEPT !.pad_margin = -1] }

\* the mode checkboxes are never both checked when Ok is pressed
DialogInputs == ValidInputs \cup GridModeInputs \cup { i \in InvalidInputs : ~(i.maximize_vias /\ i.target_mode) }

OwnedVia(x, y) == [x |-> x, y |-> y, diameter |-> 2, net |-> "GND", layers |-> ViaLayers]

\* the board the dialog opens on: empty; an array of two owned vias, one of them
\* outside the fill of the L-shaped zone; an owned via next to a user's via on
\* the zone's net and a via of another net
DialogBoards ==
    { [vias |-> <<>>, owned |-> {}],
      [vias |-> <<OwnedVia(1, 1), OwnedVia(4, 4)>>, owned |-> {1, 2}],
      [vias |-> <<OwnedVia(1, 1), OwnedVia(3, 1), [OwnedVia(1, 4) EXCEPT !.net = "VCC"]>>, owned |-> {1}] }

NoRun ==
    [result |-> "none", error |-> "ok", pre_vias |-> <<>>, pre_owned |-> {}, attempt |-> <<>>, placed |-> <<>>,
     last_fill_stats |-> NoStats, phase_search |-> NoSearch]

InitDialog ==
    /\ \E shape \in DialogShapes : zones = [z \in {1} |-> BoardZone(1, shape, TRUE)]
    /\ \E b \in DialogBoards, inputs \in DialogInputs :
           /\ vias = b.vias
           /\ nextId = Len(b.vias) + 1
           /\ dlg = [inputs |-> inputs, owned_via_ids |-> b.owned, config_owned |-> b.owned,
                     _action_in_progress |-> FALSE, destroyed |-> FALSE]
    /\ dpc = "open"
    /\ dout = NoRun
    /\ metaItem = FALSE
    /\ meta = <<>>
    /\ IdleIpc
    /\ IdleGrid

\* where a handler waits in the event loop of the modal prompt it opened
Prompts == {"process_prompt", "clear_prompt"}

\* BeginActionContext
BeginActionContext == [dlg EXCEPT !._action_in_progress = TRUE]

\* where the event loop is when a handler returns: a handler called from the
\* event loop of a prompt returns into that prompt
AfterHandler(nested, closes) ==
    IF nested THEN dpc ELSE IF closes \/ dlg.destroyed THEN "closed" ELSE "open"

\* onProcessAction from the answer to the user-vias question on: RestitchCurrentZone
\* prunes the owned vias outside the zone, clears the array, collects the
\* obstacles and runs FillupArea; a run that placed vias saves the configuration,
\* pushes the commit and closes the dialog; EndActionContext on every way out
RestitchCurrentZone(include_user_vias, proceed, nested) ==
    LET zone == zones[1]
        pruned == PruneGroupedViasOutsideZone(vias, zone, dlg.owned_via_ids)
        vias_pruned == SafeRemoveVia(vias, pruned)
        owned_pruned == dlg.owned_via_ids \ pruned
        cleared == ClearArea(vias_pruned, zone, owned_pruned, include_user_vias)
        vias_cleared == SafeRemoveVia(vias_pruned, cleared)
        owned_cleared == RefreshOwnedViasState(vias_pruned, owned_pruned) \ cleared
    IN  \E filled \in {FillupArea(zone, vias_cleared, dlg.inputs, proceed)} :
        LET created == [k \in DOMAIN filled.inserted |-> nextId + k - 1]
            owned_filled == owned_cleared \cup Range(created)
        IN  /\ vias' = _add_real_via(vias_cleared, filled.inserted, nextId, dlg.inputs, zone)
            /\ nextId' = nextId + Len(filled.inserted)
            /\ dlg' = [dlg EXCEPT !.owned_via_ids = owned_filled,
                                  !.config_owned = IF filled.result = "filled" THEN owned_filled ELSE @,
                                  !._action_in_progress = FALSE,
                                  !.destroyed = @ \/ filled.result = "filled"]
            /\ dpc' = AfterHandler(nested, filled.result = "filled")
            /\ dout' = [result |-> filled.result, error |-> filled.error, pre_vias |-> vias,
                        pre_owned |-> dlg.owned_via_ids, attempt |-> filled.attempt, placed |-> created,
                        last_fill_stats |-> filled.last_fill_stats, phase_search |-> filled.phase_search]

\* onClearAction from the answer to the user-vias question on: ClearArea; when it
\* removed a via the configuration is saved, the commit pushed and the dialog
\* closed; EndActionContext on every way out
ClearCurrentZone(include_user_vias, nested) ==
    LET cleared == ClearArea(vias, zones[1], dlg.owned_via_ids, include_user_vias)
        owned_cleared == RefreshOwnedViasState(vias, dlg.owned_via_ids) \ cleared
    IN  /\ vias' = SafeRemoveVia(vias, cleared)
        /\ dlg' = [dlg EXCEPT !.owned_via_ids = owned_cleared,
                              !.config_owned = IF cleared # {} THEN owned_cleared ELSE @,
                              !._action_in_progress = FALSE,
                              !.destroyed = @ \/ cleared # {}]
        /\ dout' = [result |-> IF cleared # {} THEN "cleared" ELSE "not_cleared", error |-> "ok", pre_vias |-> vias,
                    pre_owned |-> dlg.owned_via_ids, attempt |-> <<>>, placed |-> <<>>,
                    last_fill_stats |-> NoStats, phase_search |-> NoSearch]
        /\ dpc' = AfterHandler(nested, cleared # {})
        /\ UNCHANGED nextId

\* the Ok button.  With user vias on the zone's net the handler asks whether to
\* replace them: a remembered answer is used at once, otherwise the handler
\* waits in the prompt's event loop
onProcessAction ==
    /\ dpc = "open"
    /\ ~dlg._action_in_progress
    /\ IF CountUserNetViasInZone(vias, zones[1], dlg.owned_via_ids) > 0
       THEN \/ /\ dpc' = "process_prompt"
               /\ dlg' = BeginActionContext
               /\ UNCHANGED <<vias, nextId, dout>>
            \/ \E saved_choice \in BOOLEAN, proceed \in BOOLEAN : RestitchCurrentZone(saved_choice, proceed, FALSE)
       ELSE \E proceed \in BOOLEAN : RestitchCurrentZone(FALSE, proceed, FALSE)
    /\ UNCHANGED <<zones, metaItem, meta, ipcVars, gridVars>>

\* the user answers the question of onProcessAction
PromptReplaceUserNetVias ==
    /\ dpc = "process_prompt"
    /\ \E answer \in BOOLEAN, proceed \in BOOLEAN : RestitchCurrentZone(answer, proceed, FALSE)
    /\ UNCHANGED <<zones, metaItem, meta, ipcVars, gridVars>>

\* the Clear button, enabled while an owned via is on the board
onClearAction ==
    /\ dpc = "open"
    /\ CountExistingOwnedVias(vias, dlg.owned_via_ids) > 0
    /\ IF CountUserNetViasInZone(vias, zones[1], RefreshOwnedViasState(vias, dlg.owned_via_ids)) > 0
       THEN \/ /\ dpc' = "clear_prompt"
               /\ dlg' = BeginActionContext
               /\ UNCHANGED <<vias, nextId, dout>>
            \/ \E saved_choice \in BOOLEAN : ClearCurrentZone(saved_choice, FALSE)
       ELSE ClearCurrentZone(FALSE, FALSE)
    /\ UNCHANGED <<zones, metaItem, meta, ipcVars, gridVars>>

\* the user answers the question of onClearAction
PromptRemoveUserNetVias ==
    /\ dpc = "clear_prompt"
    /\ \E answer \in BOOLEAN : ClearCurrentZone(answer, FALSE)
    /\ UNCHANGED <<zones, metaItem, meta, ipcVars, gridVars>>

\* an Ok request delivered by the event loop of a prompt, while the dialog is
\* not yet closed: ignored while _action_in_progress is set, otherwise the
\* handler runs (its own question answered) and returns into the prompt
ReenterProcessAction ==
    /\ dpc \in Prompts
    /\ ~dlg.destroyed
    /\ IF dlg._action_in_progress
       THEN /\ dout' = [NoRun EXCEPT !.result = "ignored"]
            /\ UNCHANGED <<vias, nextId, dlg, dpc>>
       ELSE \E answer \in (IF CountUserNetViasInZone(vias, zones[1], dlg.owned_via_ids) > 0 THEN BOOLEAN ELSE {FALSE}),
               proceed \in BOOLEAN : RestitchCurrentZone(answer, proceed, TRUE)
    /\ UNCHANGED <<zones, metaItem, meta, ipcVars, gridVars>>

\* a Clear request delivered by the event loop of a prompt, while the dialog is
\* not yet closed: the handler looks at the button only
ReenterClearAction ==
    /\ dpc \in Prompts
    /\ ~dlg.destroyed
    /\ CountExistingOwnedVias(vias, dlg.owned_via_ids) > 0
    /\ \E answer \in (IF CountUserNetViasInZone(vias, zones[1], RefreshOwnedViasState(vias, dlg.owned_via_ids)) > 0
                      THEN BOOLEAN ELSE {FALSE}) : ClearCurrentZone(answer, TRUE)
    /\ UNCHANGED <<zones, metaItem, meta, ipcVars, gridVars>>

NextDialog ==
    \/ onProcessAction
    \/ PromptReplaceUserNetVias
    \/ onClearAction
    \/ PromptRemoveUserNetVias
    \/ ReenterProcessAction
    \/ ReenterClearAction

SpecDialog == InitDialog /\ [][NextDialog]_vars

-----------------------------------------------------------------------------
(* Specification of the dialog's placement-mode controls: the two mode       *)
(* checkboxes from the dialog's construction on, the controls they enable,   *)
(* and the mode the Ok button's run takes                                    *)

\* a SyncPlacementModes that leaves both checkboxes as it finds them
SyncPlacementModes_KeepBoth(d, source) ==
    [d EXCEPT !.target_via_count_mode = d.m_chkTargetViaCount]

\* SyncPlacementModes: nothing while a sync is running; with both checkboxes
\* checked the one named by source stays and the other is cleared, with no
\* source the target-count checkbox is cleared
SyncPlacementModes(d, source) ==
    IF d._syncing_mode_controls THEN d
    ELSE LET maximize_off == d.m_chkMaximizeVias /\ d.m_chkTargetViaCount /\ source = "target"
             target_off == d.m_chkMaximizeVias /\ d.m_chkTargetViaCount /\ source # "target"
         IN  [d EXCEPT !.m_chkMaximizeVias = @ /\ ~maximize_off,
                       !.m_chkTargetViaCount = @ /\ ~target_off,
                       !.target_via_count_mode = d.m_chkTargetViaCount /\ ~target_off]

\* UpdateMaximizeModeUI: the controls each mode enables
UpdateMaximizeModeUI(d) ==
    [d EXCEPT !.enabled = [spacing |-> ~d.m_chkMaximizeVias,
                           offset |-> ~d.m_chkMaximizeVias /\ ~d.m_chkTargetViaCount,
                           grid_only |-> ~d.m_chkMaximizeVias /\ ~d.m_chkTargetViaCount,
                           target |-> d.m_chkTargetViaCount]]

\* the stored defaults of the two modes: any pair, a hand-edited
\* configuration may hold both
ModeDefaults == [MaximizeVias : BOOLEAN, TargetViaCountMode : BOOLEAN]

\* what the text fields hold
ControlFields == {BaseInputs} \cup InvalidInputs

\* the fields as ParseAndValidateInputs reads them, the modes from the checkboxes
FieldsRead(d) ==
    [d.fields EXCEPT !.maximize_vias = d.m_chkMaximizeVias, !.target_mode = d.m_chkTargetViaCount]

\* the branch FillupArea takes after ParseAndValidateInputs
RunMode(inputs) ==
    IF ParseAndValidateInputs(inputs) # "ok" THEN "none"
    ELSE IF inputs.maximize_vias THEN "maximize"
    ELSE IF inputs.target_mode THEN "target"
    ELSE "grid"

\* the dialog's construction: the checkboxes take the stored defaults, then
\* SyncPlacementModes() and UpdateMaximizeModeUI()
InitControls ==
    /\ \E defaults \in ModeDefaults, fields \in ControlFields :
           /\ dlg = UpdateMaximizeModeUI(SyncPlacementModes(
                        [m_chkMaximizeVias |-> defaults.MaximizeVias,
                         m_chkTargetViaCount |-> defaults.TargetViaCountMode,
                         target_via_count_mode |-> FALSE, _syncing_mode_controls |-> FALSE,
                         enabled |-> [spacing |-> TRUE, offset |-> TRUE, grid_only |-> TRUE, target |-> TRUE],
                         fields |-> fields], "none"))
           /\ dout = [event |-> "init", maximize_was |-> defaults.MaximizeVias,
                      target_was |-> defaults.TargetViaCountMode, error |-> "ok", run |-> "none"]
    /\ dpc = "controls"
    /\ IdleBoard
    /\ IdleIpc
    /\ IdleGrid

\* a click on the maximize checkbox changes its value, then the handler runs
onToggleMaximizeMode ==
    /\ dpc = "controls"
    /\ dlg' = UpdateMaximizeModeUI(SyncPlacementModes([dlg EXCEPT !.m_chkMaximizeVias = ~@], "maximize"))
    /\ dout' = [event |-> "maximize", maximize_was |-> dlg.m_chkMaximizeVias,
                target_was |-> dlg.m_chkTargetViaCount, error |-> "ok", run |-> "none"]
    /\ UNCHANGED <<dpc, boardVars, ipcVars, gridVars>>

\* a click on the target-count checkbox changes its value, then the handler runs
onToggleTargetCountMode ==
    /\ dpc = "controls"
    /\ dlg' = UpdateMaximizeModeUI(SyncPlacementModes([dlg EXCEPT !.m_chkTargetViaCount = ~@], "target"))
    /\ dout' = [event |-> "target", maximize_was |-> dlg.m_chkMaximizeVias,
                target_was |-> dlg.m_chkTargetViaCount, error |-> "ok", run |-> "none"]
    /\ UNCHANGED <<dpc, boardVars, ipcVars, gridVars>>

\* the user types other values into the text fields
onEditFields ==
    /\ dpc = "controls"
    /\ \E fields \in ControlFields \ {dlg.fields} : dlg' = [dlg EXCEPT !.fields = fields]
    /\ UNCHANGED <<dout, dpc, boardVars, ipcVars, gridVars>>

\* the Ok button as far as the modes go: ParseAndValidateInputs, then the
\* branch of FillupArea that runs
FillupAreaMode ==
    /\ dpc = "controls"
    /\ dout' = [event |-> "ok", maximize_was |-> dlg.m_chkMaximizeVias, target_was |-> dlg.m_chkTargetViaCount,
                error |-> ParseAndValidateInputs(FieldsRead(dlg)), run |-> RunMode(FieldsRead(dlg))]
    /\ UNCHANGED <<dlg, dpc, boardVars, ipcVars, gridVars>>

NextControls == onToggleMaximizeMode \/ onToggleTargetCountMode \/ onEditFields \/ FillupAreaMode

SpecControls == InitControls /\ [][NextControls]_vars

-----------------------------------------------------------------------------
(* Maximize mode of the dialog: FillupArea._run_maximize_pack, without a    *)
(* target limit.  The bounding boxes used stay far below the 12000 samples  *)
(* from which the code coarsens the sampling steps.  The greedy passes      *)
(* after the first sort the candidates by keys drawn from a seeded random   *)
(* generator; the draws are taken as arbitrary numbers in [0, 1).           *)

greedy_passes == 28

\* the sampling of the bounding box: rows sample_y apart, every second row
\* shifted by sample_x / 2.0 (x positions carried doubled until rounded);
\* candidates_xy holds the samples that pass the edge margin and CheckOverlap
PackCandidates(zone, overlappings, inputs, pack_spacing) ==
    LET left == ZoneShapes[zone.shape].bbox[1]
        top == ZoneShapes[zone.shape].bbox[2]
        right == ZoneShapes[zone.shape].bbox[3]
        bottom == ZoneShapes[zone.shape].bbox[4]
        sample_x == Max2(1, PyRoundDiv(pack_spacing, 2))
        sample_y == Max2(1, PyRoundDiv(pack_spacing, 2))
        x_start2(row_index) == 2 * left + (IF row_index % 2 = 1 THEN sample_x ELSE 0)
        row(row_index) ==
            [k \in 1..((2 * right - x_start2(row_index)) \div (2 * sample_x) + 1) |->
                <<PyRoundHalf(x_start2(row_index) + 2 * sample_x * (k - 1)), top + row_index * sample_y>>]
        RECURSIVE scan(_, _, _)
        scan(pts, k, acc) ==
            IF k > Len(pts) THEN acc
            ELSE IF ~IsPointInsideZoneWithMargin(zone, pts[k][1], pts[k][2], inputs.viasize + 2 * inputs.edge_margin)
            THEN scan(pts, k + 1, [acc EXCEPT !.tested = @ + 1, !.reject_edge = @ + 1])
            ELSE IF CheckOverlap(overlappings, pts[k][1], pts[k][2], inputs.viasize)
            THEN scan(pts, k + 1, [acc EXCEPT !.tested = @ + 1, !.inside = @ + 1, !.reject_overlap_static = @ + 1])
            ELSE scan(pts, k + 1, [acc EXCEPT !.tested = @ + 1, !.inside = @ + 1,
                                              !.candidates_xy = Append(@, pts[k])])
    IN  scan(Flatten([r \in 1..((bottom - top) \div sample_y + 1) |-> row(r - 1)]), 1,
             [tested |-> 0, inside |-> 0, reject_edge |-> 0, reject_overlap_static |-> 0, candidates_xy |-> <<>>])

\* two candidates are nearer than the pack spacing
_conflict(candidates_xy, idx_a, idx_b, pack_spacing) ==
    Sq(Abs(candidates_xy[idx_a][1] - candidates_xy[idx_b][1]))
        + Sq(Abs(candidates_xy[idx_a][2] - candidates_xy[idx_b][2])) < pack_spacing * pack_spacing

\* the indices among binned whose cell lies in the window around the cell of (xc, yc)
_neighbor_indices(candidates_xy, xc, yc, binned, cell_size, neighbor_span) ==
    { other_idx \in binned :
        /\ candidates_xy[other_idx][1] \div cell_size \in NeighbourWindow(xc \div cell_size, neighbor_span)
        /\ candidates_xy[other_idx][2] \div cell_size \in NeighbourWindow(yc \div cell_size, neighbor_span) }

\* a lookup that reads only the cell of the candidate itself
PackBlocked_OwnCell(candidates_xy, idx, selected, pack_spacing) ==
    \E other_idx \in _neighbor_indices(candidates_xy, candidates_xy[idx][1], candidates_xy[idx][2], selected,
                                       Max2(1, pack_spacing), 0) :
        _conflict(candidates_xy, idx, other_idx, pack_spacing)

\* a candidate cannot be placed next to the selected ones
PackBlocked(candidates_xy, idx, selected, pack_spacing) ==
    \E other_idx \in _neighbor_indices(candidates_xy, candidates_xy[idx][1], candidates_xy[idx][2], selected,
                                       Max2(1, pack_spacing),
                                       Max2(1, CeilDiv(pack_spacing, Max2(1, pack_spacing)))) :
        _conflict(candidates_xy, idx, other_idx, pack_spacing)

\* conflict_counts: for every candidate the number of other candidates in conflict with it
PackConflictCounts(candidates_xy, pack_spacing) ==
    [idx \in DOMAIN candidates_xy |->
        Cardinality({ other_idx \in DOMAIN candidates_xy \ {idx} :
                        PackBlocked(candidates_xy, idx, {other_idx}, pack_spacing) })]

\* the greedy selection over the candidates in the given order
RECURSIVE PackGreedy(_, _, _, _, _)
PackGreedy(candidates_xy, order, k, selected, pack_spacing) ==
    IF k > Len(order) THEN selected
    ELSE IF PackBlocked(candidates_xy, order[k], Range(selected), pack_spacing)
    THEN PackGreedy(candidates_xy, order, k + 1, selected, pack_spacing)
    ELSE PackGreedy(candidates_xy, order, k + 1, Append(selected, order[k]), pack_spacing)

\* pass 0: the candidates sorted by (conflict count, y, x), earlier index first among equals
PackFirstOrder(candidates_xy, conflict_counts) ==
    LET key(i) == <<conflict_counts[i], candidates_xy[i][2], candidates_xy[i][1], i>>
        RECURSIVE sorted(_)
        sorted(S) ==
            IF S = {} THEN <<>>
            ELSE LET first == CHOOSE i \in S : \A j \in S \ {i} : TupleGT(key(j), key(i))
                 IN  <<first>> \o sorted(S \ {first})
    IN  sorted(DOMAIN candidates_xy)

\* the selections a later pass can make.  Its sort key is
\* conflict_counts[i] + random * 1.5 with random in [0, 1), so a candidate can
\* come before another one exactly when its count is at most the other's plus
\* one.  A pass is followed by the set it has selected: the candidates still
\* free are those not selected and not blocked, and the next one selected is a
\* free candidate whose count is at most one above the least count of the free
\* ones.  A selection is returned in index order.
PackRandomSelections(candidates_xy, conflict_counts, pack_spacing) ==
    LET free(S) == { i \in DOMAIN candidates_xy \ S : ~PackBlocked(candidates_xy, i, S, pack_spacing) }
        next(F) == { i \in F : \A j \in F : conflict_counts[i] <= conflict_counts[j] + 1 }
        RECURSIVE grow(_, _)
        grow(frontier, done) ==
            IF frontier = {} THEN done
            ELSE grow(UNION { { S \cup {i} : i \in next(free(S)) } : S \in frontier },
                      done \cup { S \in frontier : free(S) = {} })
    IN  { SetToSortedSeq(S) : S \in grow({{}}, {}) }

\* best_selection after the passes: a pass replaces it by a strictly larger
\* selection; the value no longer changes once a pass cannot change it
RECURSIVE PackBestSelections(_, _, _)
PackBestSelections(pass_idx, bests, randoms) ==
    IF pass_idx >= greedy_passes THEN bests
    ELSE Only({ IF after = bests THEN bests ELSE PackBestSelections(pass_idx + 1, after, randoms) :
                after \in { { IF Len(sel[2]) > Len(sel[1]) THEN sel[2] ELSE sel[1] : sel \in bests \X randoms } } })

\* a count that leaves out the candidates no pass selected
PackRejectedOverlap_StaticOnly(reject_overlap_static, candidates, selected) == reject_overlap_static

\* rejected_overlap_total: the candidates CheckOverlap rejected and the
\* candidates that were not selected
PackRejectedOverlap(reject_overlap_static, candidates, selected) ==
    reject_overlap_static + Max2(0, candidates - selected)

\* the results _run_maximize_pack can return, one for every value of
\* best_selection; inserted holds the points of the vias added, selection and
\* first_pass the candidate indices of the result and of pass 0
_run_maximize_pack(zone, overlappings, inputs, proceed) ==
    LET pack_spacing == Max2(1, Max2(1, inputs.viasize))
        result(sampled, first_pass, selection_to_place) ==
            IF Len(selection_to_place) > 0 /\ ~PromptLargePlacementWarning(Len(selection_to_place), proceed)
            THEN [canceled |-> TRUE, inserted |-> <<>>, candidates |-> sampled.tested, inside_zone |-> sampled.inside,
                  rejected_overlap |-> sampled.reject_overlap_static, rejected_edge_margin |-> sampled.reject_edge,
                  candidates_xy |-> sampled.candidates_xy, selection |-> selection_to_place,
                  first_pass |-> first_pass]
            ELSE [canceled |-> FALSE,
                  inserted |-> [k \in DOMAIN selection_to_place |-> sampled.candidates_xy[selection_to_place[k]]],
                  candidates |-> sampled.tested, inside_zone |-> sampled.inside,
                  rejected_overlap |-> PackRejectedOverlap(sampled.reject_overlap_static, Len(sampled.candidates_xy),
                                                           Len(selection_to_place)),
                  rejected_edge_margin |-> sampled.reject_edge,
                  candidates_xy |-> sampled.candidates_xy, selection |-> selection_to_place,
                  first_pass |-> first_pass]
        select(sampled, conflict_counts) ==
            Only({ { result(sampled, first_pass, best_selection) :
                     best_selection \in PackBestSelections(1, {first_pass},
                                            PackRandomSelections(sampled.candidates_xy, conflict_counts, pack_spacing)) } :
                   first_pass \in { PackGreedy(sampled.candidates_xy,
                                               PackFirstOrder(sampled.candidates_xy, conflict_counts),
                                               1, <<>>, pack_spacing) } })
        pack(sampled) ==
            IF sampled.candidates_xy = <<>>
            THEN { [canceled |-> FALSE, inserted |-> <<>>, candidates |-> sampled.tested, inside_zone |-> sampled.inside,
                    rejected_overlap |-> sampled.reject_overlap_static, rejected_edge_margin |-> sampled.reject_edge,
                    candidates_xy |-> <<>>, selection |-> <<>>, first_pass |-> <<>>] }
            ELSE Only({ select(sampled, conflict_counts) :
                        conflict_counts \in { PackConflictCounts(sampled.candidates_xy, pack_spacing) } })
    IN  Only({ pack(sampled) : sampled \in { PackCandidates(zone, overlappings, inputs, pack_spacing) } })

-----------------------------------------------------------------------------
(* Specification of the placement strategies as computations: the phase    *)
(* search of the IPC plugin, and the grid, target-count and maximize runs   *)
(* of the dialog's FillupArea on a zone and the items overlapping it        *)

\* settings of the IPC phase search
StrategySettings ==
    [ViaSize : {2}, ViaDrill : {1}, HSpacing : {2, 3}, VSpacing : {2, 3},
     HOffset : {0, 1}, VOffset : {0, 1}, EdgeMargin : {0, 1}, PadMargin : {0}]

\* maximize settings that parse: the spacing fields are not read
MaximizeInputs ==
    [viasize : {2, 4}, drillsize : {1}, step_x : {0}, step_y : {0}, offset_x : {0}, offset_y : {0},
     edge_margin : {0, 1}, pad_margin : {0}, maximize_vias : {TRUE}, target_mode : {FALSE},
     target_count : {2}, target_pattern : {"Grid"}, center_segments : {TRUE}]

\* the vias among the overlapping items: none, one in a corner of the fill, one
\* next to the opposite corner
StrategyOverlappings == { <<>>, <<OwnedVia(1, 1)>>, <<OwnedVia(5, 1)>> }

StrategyInputs ==
    [fn : {"ipc"}, shape : DOMAIN ZoneShapes, settings : StrategySettings, board : ObstacleBoards,
     center_segments : BOOLEAN, maximize_vias : BOOLEAN]
    \cup [fn : {"dialog"}, shape : DOMAIN ZoneShapes, overlappings : StrategyOverlappings,
          inputs : ValidInputs \cup GridModeInputs \cup MaximizeInputs]

InitStrategies ==
    /\ gIn \in StrategyInputs
    /\ gOut = [kind |-> "none", res |-> NoResult]
    /\ IdleBoard
    /\ IdleIpc
    /\ IdleDialog

\* _build_candidates of the IPC plugin
RunBuildCandidates ==
    /\ gOut.kind = "none"
    /\ gIn.fn = "ipc"
    /\ gOut' = [kind |-> "ipc", res |-> GridSearch(gIn)]
    /\ UNCHANGED <<gIn, boardVars, ipcVars, dlgVars>>

\* FillupArea's grid branch
RunGridPhaseSearch ==
    /\ gOut.kind = "none"
    /\ gIn.fn = "dialog"
    /\ ~gIn.inputs.maximize_vias /\ ~gIn.inputs.target_mode
    /\ gOut' = [kind |-> "grid",
                res |-> _run_grid_phase_search(BoardZone(1, gIn.shape, TRUE), gIn.overlappings, gIn.inputs, TRUE)]
    /\ UNCHANGED <<gIn, boardVars, ipcVars, dlgVars>>

\* FillupArea's target-count branch: the pattern attempt and what FillupArea
\* makes of it (applied)
RunTargetPatternFirst ==
    /\ gOut.kind = "none"
    /\ gIn.fn = "dialog"
    /\ ~gIn.inputs.maximize_vias /\ gIn.inputs.target_mode
    /\ \E filled \in {FillupArea(BoardZone(1, gIn.shape, TRUE), gIn.overlappings, gIn.inputs, TRUE)},
          target_attempt \in {_run_target_pattern_first(BoardZone(1, gIn.shape, TRUE), gIn.overlappings, gIn.inputs,
                                  gIn.inputs.target_pattern, gIn.inputs.target_count,
                                  Max2(Max2(1, gIn.inputs.viasize), Min2(gIn.inputs.step_x, gIn.inputs.step_y)), TRUE)} :
           gOut' = [kind |-> "target",
                    res |-> [inserted |-> filled.inserted, candidates |-> target_attempt.attempt.candidates,
                             inside_zone |-> target_attempt.attempt.inside_zone,
                             rejected_overlap |-> target_attempt.attempt.rejected_overlap,
                             rejected_edge_margin |-> target_attempt.attempt.rejected_edge_margin,
                             target_available |-> target_attempt.target_available,
                             target_requested |-> target_attempt.target_requested,
                             success |-> target_attempt.success]]
    /\ UNCHANGED <<gIn, boardVars, ipcVars, dlgVars>>

\* FillupArea's maximize branch
RunMaximizePack ==
    /\ gOut.kind = "none"
    /\ gIn.fn = "dialog"
    /\ gIn.inputs.maximize_vias
    /\ \E applied \in _run_maximize_pack(BoardZone(1, gIn.shape, TRUE), gIn.overlappings, gIn.inputs, TRUE) :
           gOut' = [kind |-> "pack", res |-> applied]
    /\ UNCHANGED <<gIn, boardVars, ipcVars, dlgVars>>

NextStrategies == RunBuildCandidates \/ RunGridPhaseSearch \/ RunTargetPatternFirst \/ RunMaximizePack

SpecStrategies == InitStrategies /\ [][NextStrategies]_vars

-----------------------------------------------------------------------------
(* C3 *)

\* C3: when the update request carries invalid parameters, the error is reported
\* with the board's vias and the ownership exactly as they were before the request.
C3_InvalidNeverPartiallyApplied ==
    dout.result = "invalid" =>
        /\ vias = dout.pre_vias
        /\ dlg.owned_via_ids = dout.pre_owned

-----------------------------------------------------------------------------
(* C10 *)

\* the positions of the vias the last run placed
PlacedPoints == [k \in DOMAIN dout.placed |-> <<vias[dout.placed[k]].x, vias[dout.placed[k]].y>>]

\* C10: in target-count mode with requested count N > 0, when the best
\* deterministic attempt accepted at least N points and the run was not
\* cancelled, exactly N vias are placed, at N distinct points of that attempt's
\* accepted set, pairwise at distance >= max(via diameter, min(pitch x, pitch y)).
C10_TargetCountExact ==
    (/\ dout.result \in {"filled", "empty"}
     /\ dlg.inputs.target_mode
     /\ dlg.inputs.target_count > 0
     /\ Len(dout.attempt) >= dlg.inputs.target_count) =>
        /\ Len(dout.placed) = dlg.inputs.target_count
        /\ Range(dout.placed) \subseteq DOMAIN vias
        /\ Range(dout.placed) \cap DOMAIN dout.pre_vias = {}
        /\ Cardinality(Range(PlacedPoints)) = dlg.inputs.target_count
        /\ Range(PlacedPoints) \subseteq Range(dout.attempt)
        /\ PairwiseApart(PlacedPoints, Max2(dlg.inputs.viasize, Min2(dlg.inputs.step_x, dlg.inputs.step_y)))

\* a run whose best attempt accepted more points than the several requested
C10_Witness ==
    /\ dout.result = "filled"
    /\ dlg.inputs.target_count >= 2
    /\ Len(dout.attempt) > dlg.inputs.target_count
    /\ Len(dout.placed) = dlg.inputs.target_count

-----------------------------------------------------------------------------
(* C11 *)

\* C11: in target-count mode, when the best deterministic attempt accepted
\* fewer points than requested and the run was not cancelled (the heuristic
\* fallback declined), every accepted point of that attempt is placed, so the
\* number of vias placed is target_available, and the reported stats carry
\* inserted = target_available < target_requested.
C11_BestEffortPlacesAvailable ==
    (/\ dout.result \in {"filled", "empty"}
     /\ dlg.inputs.target_mode
     /\ Len(dout.attempt) < dlg.inputs.target_count) =>
        /\ Len(dout.placed) = Len(dout.attempt)
        /\ Range(dout.placed) \subseteq DOMAIN vias
        /\ Range(dout.placed) \cap DOMAIN dout.pre_vias = {}
        /\ PlacedPoints = dout.attempt
        /\ dout.last_fill_stats.written
        /\ dout.last_fill_stats.inserted = Len(dout.attempt)
        /\ dout.last_fill_stats.target_available = Len(dout.attempt)
        /\ dout.last_fill_stats.target_requested = dlg.inputs.target_count
        /\ dout.last_fill_stats.target_available < dout.last_fill_stats.target_requested

\* a run that placed several points of an attempt that missed the target
C11_Witness ==
    /\ dout.result = "filled"
    /\ Len(dout.attempt) >= 2
    /\ Len(dout.attempt) < dlg.inputs.target_count
    /\ Len(dout.placed) = Len(dout.attempt)

-----------------------------------------------------------------------------
(* Specification of the geometry kernel: the pure functions of              *)
(* src/ipc/viastitching_ipc.py applied to inputs drawn from bounded sets    *)

\* region lists: the zone shapes, and a square with an empty and a two-point hole
KernelRegions ==
    [k \in 1..(Len(ZoneShapes) + 1) |->
        IF k <= Len(ZoneShapes) THEN ZoneShapes[k].polygons
        ELSE << [outline |-> Ring(0, 0, ZoneSize, ZoneSize), holes |-> << <<>>, << <<3, 3>>, <<3, 4>> >> >>] >>]

\* largest boundary margin tried
MaxMargin == 3

ContainInputs ==
    [fn : {"contains"}, regions : DOMAIN KernelRegions, x : (-1)..(ZoneSize + 1), y : (-1)..(ZoneSize + 1),
     margin : (-1)..MaxMargin]

\* the rectangle scenario, in units of 0.25 mm: a 10 mm square zone (40), via
\* size 0.5 mm (2), pitch 1 mm (4), offsets 0, edge margin 0, with its
\* variations: a coarser pitch, an edge margin, a via at the centre.  The drill
\* (0.3 mm) is not read by the grid run; it is kept below the via size.
AnchorInputs ==
    [fn : {"anchor"}, side : {40}, ViaSize : {2}, ViaDrill : {1}, pitch : {4, 8}, EdgeMargin : {0, 1},
     centre_via : BOOLEAN]

AnchorZone(a) == [bbox |-> <<0, 0, a.side, a.side>>, layers |-> ZoneLayers, net |-> "GND"]

AnchorSettings(a) ==
    [ViaSize |-> a.ViaSize, ViaDrill |-> a.ViaDrill, HSpacing |-> a.pitch, VSpacing |-> a.pitch,
     HOffset |-> 0, VOffset |-> 0, EdgeMargin |-> a.EdgeMargin, PadMargin |-> 0]

\* the grid run of the scenario at the phase of its offsets
AnchorRun(a) ==
    _build_candidates_for_phase(AnchorZone(a), << [outline |-> Ring(0, 0, a.side, a.side), holes |-> <<>>] >>,
        Dims(AnchorSettings(a)),
        IF a.centre_via THEN << <<a.side \div 2, a.side \div 2, a.ViaSize \div 2>> >> ELSE <<>>,
        <<>>, <<>>, 0, 0, FALSE, FALSE)

\* interval lists: up to MaxIntervals intervals, in any order, with ends in
\* 0..MaxEnd; an interval may be degenerate (a = b), overlap or touch another
MaxEnd == 3

MaxIntervals == 3

Intervals == { iv \in (0..MaxEnd) \X (0..MaxEnd) : iv[1] <= iv[2] }

IntervalLists == UNION { [1..n -> Intervals] : n \in 0..MaxIntervals }

IntervalInputs == [fn : {"intervals"}, X : IntervalLists]

\* largest pitch of a row
MaxPitch == 3

\* one coverage interval of a row, the pitch, the first lattice position at or
\* after the left end 0 of the bounding box, and the two mode flags
RowInputs ==
    { r \in [fn : {"row"}, iv : Intervals, step_x : 1..MaxPitch, start_x : 0..(MaxPitch - 1),
             center_segments : BOOLEAN, maximize_vias : BOOLEAN] : r.start_x < r.step_x }

\* the copper layers of the layer filter
FilterLayers == {0, 1}

\* what an item of the board tells about its layers: a layers collection
\* (possibly empty), a single layer attribute, or nothing
LayerAttrs ==
    { [layers |-> s] : s \in SUBSET FilterLayers }
        \cup { [layers |-> {}, layer |-> l] : l \in FilterLayers }
        \cup { [layer |-> l] : l \in FilterLayers }
        \cup { [none |-> TRUE] }

\* one via (id 1), one pad and one track with their layer attributes, the
\* layer set of the zone, the ids to ignore and the IncludeOtherLayers flag
LayerInputs ==
    [fn : {"layers"}, via : LayerAttrs, pad : LayerAttrs, track : LayerAttrs,
     target_layers : SUBSET FilterLayers, ignore_ids : {{}, {1}}, include_other_layers : BOOLEAN]

LayerBoard(g) ==
    [vias |-> [i \in {1} |-> [x |-> 1, y |-> 1, diameter |-> 2, net |-> "GND"] @@ g.via],
     pads |-> << [x |-> 3, y |-> 1, sx |-> 2, sy |-> 1] @@ g.pad >>,
     tracks |-> << [sx |-> 0, sy |-> 5, ex |-> 3, ey |-> 5, width |-> 1] @@ g.track >>]

\* largest coordinate of the spatial hash scenario, and its largest spacing
HashSpan == 2
MaxSpacing == 3

\* positions on both sides of the origin
HashPoints == ((-HashSpan)..HashSpan) \X (-1..1)

\* up to two accepted points in their order of acceptance, a candidate, and
\* the required spacing
HashInputs ==
    [fn : {"hash"},
     accepted : {<<>>} \cup { <<p>> : p \in HashPoints } \cup { <<p, q>> : p, q \in HashPoints },
     candidate : HashPoints, spacing : 1..MaxSpacing]

InitKernel ==
    /\ \/ gIn \in ContainInputs
       \/ gIn \in AnchorInputs
       \/ gIn \in IntervalInputs
       \/ gIn \in RowInputs
       \/ gIn \in LayerInputs
       \/ gIn \in HashInputs
    /\ gOut = [kind |-> "none", res |-> NoResult]
    /\ IdleBoard
    /\ IdleIpc
    /\ IdleDialog

\* one call of _point_inside_zone_with_margin
RunContains ==
    /\ gOut.kind = "none"
    /\ gIn.fn = "contains"
    /\ gOut' = [kind |-> "contains",
                res |-> _point_inside_zone_with_margin(gIn.x, gIn.y, KernelRegions[gIn.regions], gIn.margin)]
    /\ UNCHANGED <<gIn, boardVars, ipcVars, dlgVars>>

\* the grid run of the rectangle scenario
RunAnchor ==
    /\ gOut.kind = "none"
    /\ gIn.fn = "anchor"
    /\ gOut' = [kind |-> "anchor", res |-> AnchorRun(gIn)]
    /\ UNCHANGED <<gIn, boardVars, ipcVars, dlgVars>>

\* _merge_intervals of a list, and of its own result
RunMerge ==
    /\ gOut.kind = "none"
    /\ gIn.fn = "intervals"
    /\ \E merged \in {_merge_intervals(gIn.X)} :
           gOut' = [kind |-> "merge", res |-> [merged |-> merged, again |-> _merge_intervals(merged)]]
    /\ UNCHANGED <<gIn, boardVars, ipcVars, dlgVars>>

\* _subtract_intervals of a list and a cut list: no cut, the list itself, or
\* one of its intervals
RunSubtract ==
    /\ gOut.kind = "none"
    /\ gIn.fn = "intervals"
    /\ \E cuts \in {<<>>, gIn.X} \cup { <<gIn.X[i]>> : i \in DOMAIN gIn.X } :
           gOut' = [kind |-> "subtract", res |-> [cuts |-> cuts, out |-> _subtract_intervals(gIn.X, cuts)]]
    /\ UNCHANGED <<gIn, boardVars, ipcVars, dlgVars>>

\* the positions of one coverage interval: _row_segment_points of the IPC
\* plugin, and _build_row_positions of the dialog, which without centring and
\* maximize walks the lattice of the whole row (here the part in the interval)
RunRowSegment ==
    /\ gOut.kind = "none"
    /\ gIn.fn = "row"
    /\ gOut' = [kind |-> "row",
                res |-> [ipc |-> _row_segment_points(<<gIn.iv>>, gIn.step_x, gIn.start_x,
                                                     gIn.center_segments, gIn.maximize_vias),
                         dialog |-> IF ~gIn.center_segments /\ ~gIn.maximize_vias
                                    THEN SelectSeq([k \in 1..((MaxEnd - gIn.start_x) \div gIn.step_x + 1) |->
                                                       gIn.start_x + (k - 1) * gIn.step_x],
                                                   LAMBDA x : gIn.iv[1] <= x /\ x <= gIn.iv[2])
                                    ELSE SetToSortedSeq(RowPositionsInRun(gIn.iv[1], gIn.iv[2], gIn.start_x, gIn.step_x,
                                                                          gIn.center_segments, gIn.maximize_vias))]]
    /\ UNCHANGED <<gIn, boardVars, ipcVars, dlgVars>>

\* the three obstacle lists of _build_candidates
RunGatherObstacles ==
    /\ gOut.kind = "none"
    /\ gIn.fn = "layers"
    /\ \E board \in {LayerBoard(gIn)} :
           gOut' = [kind |-> "layers",
                    res |-> [via_obstacles |-> _gather_via_obstacles(board, gIn.ignore_ids, gIn.target_layers, gIn.include_other_layers),
                             pad_obstacles |-> _gather_pad_obstacles(board, gIn.target_layers, gIn.include_other_layers),
                             track_obstacles |-> _gather_track_obstacles(board, gIn.target_layers, gIn.include_other_layers)]]
    /\ UNCHANGED <<gIn, boardVars, ipcVars, dlgVars>>

\* the sibling test of a candidate against the accepted points: the test of
\* _run_phase and _evaluate_target_pattern after _remember_accepted of every
\* accepted point, and the lookup of _run_maximize_pack with the accepted
\* points as the selected candidates
RunSiblingConflict ==
    /\ gOut.kind = "none"
    /\ gIn.fn = "hash"
    /\ gOut' = [kind |-> "hash",
                res |-> [phase |-> _conflicts_with_accepted(gIn.accepted, gIn.candidate[1], gIn.candidate[2],
                                                           Max2(1, gIn.spacing), gIn.spacing),
                         pack |-> PackBlocked(Append(gIn.accepted, gIn.candidate), Len(gIn.accepted) + 1,
                                              DOMAIN gIn.accepted, gIn.spacing)]]
    /\ UNCHANGED <<gIn, boardVars, ipcVars, dlgVars>>

NextKernel ==
    \/ RunContains \/ RunAnchor \/ RunMerge \/ RunSubtract \/ RunRowSegment \/ RunGatherObstacles
    \/ RunSiblingConflict

SpecKernel == InitKernel /\ [][NextKernel]_vars

-----------------------------------------------------------------------------
(* C12 *)

\* the squared distance from (x, y) to the nearest point of the closed rectangle
RectDist2(x, y, x0, y0, x1, y1) ==
    Sq(Max2(Max2(x0 - x, x - x1), 0)) + Sq(Max2(Max2(y0 - y, y - y1), 0))

\* the distance from a point of the rectangle to its nearest side
RectInset(x, y, x0, y0, x1, y1) == Min2(Min2(x - x0, x1 - x), Min2(y - y0, y1 - y))

\* the claim's condition, region by region
ContainedBy(x, y, poly, margin) ==
    /\ _point_in_polygon(x, y, poly.outline)
    /\ \A h \in DOMAIN poly.holes : ~ _point_in_polygon(x, y, poly.holes[h])
    /\ \/ margin <= 0
       \/ /\ ~ DistLT(_poly_min_edge_distance(x, y, poly.outline), margin)
          /\ \A h \in DOMAIN poly.holes : ~ DistLT(_poly_min_edge_distance(x, y, poly.holes[h]), margin)

\* C12: _point_inside_zone_with_margin is true exactly when some region has the
\* point inside its outline, inside none of its holes, and either margin <= 0 or
\* the minimum edge distance to the outline and to every hole is >= margin.  On
\* the plain square this is the inset of the point being >= margin; a point
\* inside the hole of the holed square is outside, and a point outside every
\* outline is outside at every margin.
C12_ContainmentOracle ==
    gOut.kind = "contains" =>
        /\ gOut.res = (\E k \in DOMAIN KernelRegions[gIn.regions] :
                          ContainedBy(gIn.x, gIn.y, KernelRegions[gIn.regions][k], gIn.margin))
        /\ (gIn.regions = 1 /\ gIn.margin > 0) =>
              (gOut.res = (/\ RectDist2(gIn.x, gIn.y, 0, 0, ZoneSize, ZoneSize) = 0
                           /\ RectInset(gIn.x, gIn.y, 0, 0, ZoneSize, ZoneSize) >= gIn.margin))
        /\ (gIn.regions = 2 /\ gIn.margin > 0) =>
              (gOut.res = (/\ RectDist2(gIn.x, gIn.y, 0, 0, ZoneSize, ZoneSize) = 0
                           /\ RectInset(gIn.x, gIn.y, 0, 0, ZoneSize, ZoneSize) >= gIn.margin
                           /\ RectDist2(gIn.x, gIn.y, 2, 2, 4, 4) >= Sq(gIn.margin)))
        /\ (gIn.regions = 2 /\ RectDist2(gIn.x, gIn.y, 2, 2, 4, 4) = 0 /\ RectInset(gIn.x, gIn.y, 2, 2, 4, 4) > 0) =>
              ~gOut.res
        /\ (RectDist2(gIn.x, gIn.y, 0, 0, ZoneSize, ZoneSize) > 0) => ~gOut.res

\* a point of the holed square that the outline admits and the hole's margin rejects
C12_Witness ==
    /\ gOut.kind = "contains"
    /\ gIn.regions = 2
    /\ gIn.margin > 0
    /\ RectInset(gIn.x, gIn.y, 0, 0, ZoneSize, ZoneSize) >= gIn.margin
    /\ ~ _point_in_polygon(gIn.x, gIn.y, Ring(2, 2, 4, 4))
    /\ RectDist2(gIn.x, gIn.y, 2, 2, 4, 4) < Sq(gIn.margin)
    /\ ~gOut.res

-----------------------------------------------------------------------------
(* C13 *)

\* the candidates of the grid run g at phase (px, py) that pass containment, in scan order
PassingCandidates(g, px, py) ==
    LET zone == GridZone(g.shape)
        polygons == ZoneShapes[g.shape].polygons
        start_x == zone.bbox[1] + ((px - zone.bbox[1]) % g.settings.HSpacing)
        start_y == zone.bbox[2] + ((py - zone.bbox[2]) % g.settings.VSpacing)
        rows == { y \in zone.bbox[2]..zone.bbox[4] : y >= start_y /\ (y - start_y) % g.settings.VSpacing = 0 }
        row(y) == _row_segment_points(_row_intervals(polygons, y), g.settings.HSpacing, start_x,
                                      g.center_segments, g.maximize_vias)
        inside(x, y) == _point_inside_zone_with_margin(x, y, polygons, g.settings.ViaSize \div 2 + g.settings.EdgeMargin)
    IN  UNION { { <<x, y>> : x \in { v \in Range(row(y)) : inside(v, y) } } : y \in rows }

\* scan order of the candidates: row by row, left to right
ScannedBefore(p, q) == p[2] < q[2] \/ (p[2] = q[2] /\ p[1] < q[1])

\* the claim's overlap condition for the candidate p, given the accepted vias
OverlapsPerClaim(g, accepted, p) ==
    LET via_radius == g.settings.ViaSize \div 2
        own_limit == via_radius + g.settings.PadMargin
        pad_radius(pad) == IF Max2(pad.sx, pad.sy) \div 2 <= 0 THEN 1 ELSE Max2(pad.sx, pad.sy) \div 2
    IN  \/ \E i \in DOMAIN g.board.vias :
              Sq(p[1] - g.board.vias[i].x) + Sq(p[2] - g.board.vias[i].y)
                  < Sq(own_limit + g.board.vias[i].diameter \div 2)
        \/ \E a \in Range(accepted) :
              ScannedBefore(a, p) /\ Sq(p[1] - a[1]) + Sq(p[2] - a[2]) < Sq(own_limit + via_radius)
        \/ \E i \in DOMAIN g.board.pads :
              Sq(p[1] - g.board.pads[i].x) + Sq(p[2] - g.board.pads[i].y) < Sq(own_limit + pad_radius(g.board.pads[i]))
        \/ \E i \in DOMAIN g.board.tracks :
              DistLT(_dist_point_to_segment(p[1], p[2], g.board.tracks[i].sx, g.board.tracks[i].sy,
                                            g.board.tracks[i].ex, g.board.tracks[i].ey),
                     own_limit + g.board.tracks[i].width \div 2)

\* the candidates within the rejection radius of the board's first via
NearFirstVia(g, cands) ==
    { p \in cands : Sq(p[1] - g.board.vias[1].x) + Sq(p[2] - g.board.vias[1].y)
                        < Sq(g.settings.ViaSize \div 2 + g.settings.PadMargin + g.board.vias[1].diameter \div 2) }

SingleViaOnly(g) == Len(g.board.vias) = 1 /\ g.board.pads = <<>> /\ g.board.tracks = <<>>

\* a candidate that passed containment is rejected by overlap if and only if
\* an obstacle or a via accepted earlier in the run is nearer than the limit
RejectedIffOverlap ==
    gOut.kind = "phase" =>
        \A cands \in {PassingCandidates(gIn, gOut.res.phase_x, gOut.res.phase_y)} :
            /\ Range(gOut.res.new_vias) \subseteq cands
            /\ Cardinality(cands) = gOut.res.inside
            /\ \A p \in cands : (p \notin Range(gOut.res.new_vias)) <=> OverlapsPerClaim(gIn, gOut.res.new_vias, p)
            /\ gOut.res.rejected_overlap = Cardinality(cands \ Range(gOut.res.new_vias))

\* C13 (as stated): the equivalence above, and with a single pre-existing via
\* as the only obstacle exactly the candidates inside the rejection radius of
\* that via are rejected and no others.
C13_OverlapRejection ==
    /\ RejectedIffOverlap
    /\ (gOut.kind = "phase" /\ SingleViaOnly(gIn)) =>
          \A cands \in {PassingCandidates(gIn, gOut.res.phase_x, gOut.res.phase_y)} :
              cands \ Range(gOut.res.new_vias) = NearFirstVia(gIn, cands)

\* C13 (amended): the equivalence above; with a single pre-existing via as the
\* only obstacle, every candidate inside the rejection radius of that via is
\* rejected, and no other candidate is rejected when no two candidates are
\* nearer to each other than 2 * via_radius + pad_margin, as on an uncentred
\* grid whose pitches are at least that length.
C13_OverlapRejectionSelfReserved ==
    /\ RejectedIffOverlap
    /\ (gOut.kind = "phase" /\ SingleViaOnly(gIn)) =>
          \A cands \in {PassingCandidates(gIn, gOut.res.phase_x, gOut.res.phase_y)},
             self_limit \in {2 * (gIn.settings.ViaSize \div 2) + gIn.settings.PadMargin} :
              /\ NearFirstVia(gIn, cands) \subseteq cands \ Range(gOut.res.new_vias)
              /\ (\A p, q \in cands : p # q => Sq(p[1] - q[1]) + Sq(p[2] - q[2]) >= Sq(self_limit)) =>
                    cands \ Range(gOut.res.new_vias) = NearFirstVia(gIn, cands)
              /\ (/\ ~gIn.center_segments
                  /\ gIn.settings.HSpacing >= self_limit
                  /\ gIn.settings.VSpacing >= self_limit) =>
                    cands \ Range(gOut.res.new_vias) = NearFirstVia(gIn, cands)

\* a run around a single via that rejected the candidates near it and accepted others
C13_Witness ==
    /\ gOut.kind = "phase"
    /\ SingleViaOnly(gIn)
    /\ ~gIn.center_segments
    /\ gIn.settings.HSpacing >= 2 * (gIn.settings.ViaSize \div 2) + gIn.settings.PadMargin
    /\ gIn.settings.VSpacing >= 2 * (gIn.settings.ViaSize \div 2) + gIn.settings.PadMargin
    /\ gOut.res.rejected_overlap >= 2
    /\ Len(gOut.res.new_vias) >= 2

-----------------------------------------------------------------------------
(* C14 *)

\* the scenario itself: pitch 1 mm, edge margin 0, no obstacle
SimpleRectangle == gIn.fn = "anchor" /\ gIn.pitch = 4 /\ gIn.EdgeMargin = 0 /\ ~gIn.centre_via

\* C14 (as stated): on the simple rectangle the grid run accepts the full
\* lattice of 11 x 11 = 121 points.
C14_FullLattice121 ==
    (gOut.kind = "anchor" /\ SimpleRectangle) =>
        /\ Len(gOut.res.new_vias) = 121
        /\ Range(gOut.res.new_vias) = { <<4 * i, 4 * j>> : i \in 0..10, j \in 0..10 }

\* C14 (amended): on the simple rectangle the grid run tests 110 candidates (11
\* per row on the rows y = 0 .. 9 mm; the row y = 10 mm has no interval),
\* rejects the 29 that are nearer to the outline than the via radius 0.25 mm,
\* and accepts the 9 x 9 = 81 points of the lattice 1 mm .. 9 mm, row by row.
C14_InteriorLattice81 ==
    (gOut.kind = "anchor" /\ SimpleRectangle) =>
        /\ Len(gOut.res.new_vias) = 81
        /\ gOut.res.new_vias = [k \in 1..81 |-> <<4 * (((k - 1) % 9) + 1), 4 * (((k - 1) \div 9) + 1)>>]
        /\ gOut.res.candidates_tested = 110
        /\ gOut.res.inside = 81
        /\ gOut.res.rejected_edge = 29
        /\ gOut.res.rejected_overlap = 0

\* the run of the simple rectangle
C14_Witness ==
    /\ gOut.kind = "anchor"
    /\ SimpleRectangle
    /\ Len(gOut.res.new_vias) = 81
    /\ gOut.res.rejected_edge = 29

-----------------------------------------------------------------------------
(* C16 *)

\* the points of the line (in halves, so that the gaps count) an interval list covers
Covered(list) == { h \in 0..(2 * MaxEnd) : \E i \in DOMAIN list : 2 * list[i][1] <= h /\ h <= 2 * list[i][2] }

\* C16: _merge_intervals is idempotent: merging the result of a merge returns
\* it unchanged; the result is sorted by left end and no two of its intervals
\* overlap or touch (each starts strictly after every earlier one ends); it
\* covers the points the list covered
C16_MergeIdempotent ==
    gOut.kind = "merge" =>
        /\ gOut.res.again = gOut.res.merged
        /\ \A i, j \in DOMAIN gOut.res.merged :
               i < j => /\ gOut.res.merged[i][1] < gOut.res.merged[j][1]
                        /\ gOut.res.merged[i][2] < gOut.res.merged[j][1]
        /\ Covered(gOut.res.merged) = Covered(gIn.X)
        /\ \A i \in DOMAIN gOut.res.merged : gOut.res.merged[i][1] <= gOut.res.merged[i][2]

\* an unsorted list with a touching pair and a degenerate interval was merged into fewer intervals
C16_Witness ==
    /\ gOut.kind = "merge"
    /\ Len(gIn.X) = MaxIntervals
    /\ \E i, j \in DOMAIN gIn.X : i < j /\ gIn.X[j][2] = gIn.X[i][1] /\ gIn.X[j][1] < gIn.X[j][2]
    /\ \E i \in DOMAIN gIn.X : gIn.X[i][1] = gIn.X[i][2]
    /\ Len(gOut.res.merged) = 2
    /\ gOut.res.again = gOut.res.merged

-----------------------------------------------------------------------------
(* C17 *)

\* C17: _subtract_intervals(I, []) returns I unchanged, and
\* _subtract_intervals(I, I) returns the empty list
C17_SubtractLaws ==
    gOut.kind = "subtract" =>
        /\ gOut.res.cuts = <<>> => gOut.res.out = gIn.X
        /\ gOut.res.cuts = gIn.X => gOut.res.out = <<>>

\* an unsorted list of overlapping intervals was cut by itself
C17_Witness ==
    /\ gOut.kind = "subtract"
    /\ Len(gIn.X) >= 2
    /\ gOut.res.cuts = gIn.X
    /\ \E i, j \in DOMAIN gIn.X :
           i < j /\ gIn.X[j][1] < gIn.X[i][1] /\ gIn.X[i][1] < gIn.X[j][2] /\ gIn.X[j][2] < gIn.X[i][2]
    /\ gOut.res.out = <<>>

-----------------------------------------------------------------------------
(* C18 *)

\* C18: when _update_zone_array computes an empty accepted set it fails with
\* the 'No vias placed' diagnostic without calling begin_commit: no commit is
\* begun, no board call mutates or finishes anything, and the board's vias (the
\* zone's previously owned vias among them) and the persisted ownership
\* metadata are exactly as before the call
C18_ZeroPlacementUntouched ==
    (op.kind = "update" /\ CallsAt({"_build_candidates"}) # {} /\ op.new_vias = <<>>) =>
        /\ pc = "done"
        /\ op.status = "error"
        /\ op.error = "No vias placed."
        /\ CallsAt({"begin_commit"}) = {}
        /\ Mutations \cup Finishers = {}
        /\ vias = pre.vias
        /\ metaItem = pre.metaItem
        /\ meta = pre.meta
        /\ \A id \in Range(PreOwned(op.zone)) \cap DOMAIN pre.vias : id \in DOMAIN vias /\ vias[id] = pre.vias[id]
        /\ Owned(op.zone) = PreOwned(op.zone)

\* an update of a zone with a recorded array found no place for a via: the
\* array's vias are on the board and in the record
C18_Witness ==
    /\ pc = "done"
    /\ op.kind = "update"
    /\ op.new_vias = <<>>
    /\ log = << [call |-> "_build_candidates", ok |-> TRUE] >>
    /\ metaItem
    /\ Len(Owned(op.zone)) >= 2
    /\ Range(Owned(op.zone)) \subseteq DOMAIN vias

-----------------------------------------------------------------------------
(* C19 *)

\* a step taken while a handler waits in its prompt and after which it still waits
RequestDuringAction == dpc \in Prompts /\ dpc' = dpc

\* C19: while an action of the dialog is between its BeginActionContext and its
\* EndActionContext, _action_in_progress is set, and it is clear once the
\* action has ended; a process or clear request that arrives meanwhile changes
\* no via of the board and leaves _action_in_progress set
C19_NonReentrant ==
    /\ [](dpc \in {"open", "closed"} \cup Prompts => (dlg._action_in_progress <=> dpc \in Prompts))
    /\ [][RequestDuringAction => vias' = vias /\ dlg'._action_in_progress]_vars

-----------------------------------------------------------------------------
(* C15 *)

\* C15: after the dialog's construction and after every toggle of the two mode
\* checkboxes they are never both checked: a checkbox just toggled on stays
\* checked and the other one is cleared, the construction keeps the maximize
\* default; target_via_count_mode follows the target-count checkbox; and no
\* placement run starts with both modes enabled
C15_ModesExclusive ==
    dpc = "controls" =>
        /\ ~(dlg.m_chkMaximizeVias /\ dlg.m_chkTargetViaCount)
        /\ dlg.target_via_count_mode = dlg.m_chkTargetViaCount
        /\ (dout.event = "maximize" /\ ~dout.maximize_was) => dlg.m_chkMaximizeVias /\ ~dlg.m_chkTargetViaCount
        /\ (dout.event = "target" /\ ~dout.target_was) => dlg.m_chkTargetViaCount /\ ~dlg.m_chkMaximizeVias
        /\ dout.event = "maximize" => (dlg.m_chkMaximizeVias = ~dout.maximize_was)
        /\ dout.event = "target" => (dlg.m_chkTargetViaCount = ~dout.target_was)
        /\ dout.event = "init" => (dlg.m_chkMaximizeVias = dout.maximize_was)
        /\ (dout.event = "ok" /\ dout.run # "none") =>
               /\ ~(dout.maximize_was /\ dout.target_was)
               /\ dout.run = (IF dout.maximize_was THEN "maximize" ELSE IF dout.target_was THEN "target" ELSE "grid")

\* the target-count checkbox was checked while maximize was on: maximize is cleared
C15_Witness ==
    /\ dpc = "controls"
    /\ dout.event = "target"
    /\ dout.maximize_was
    /\ ~dout.target_was
    /\ dlg.m_chkTargetViaCount
    /\ ~dlg.m_chkMaximizeVias
    /\ ~dlg.enabled.offset

-----------------------------------------------------------------------------
(* C20 *)

\* C20: in a grid run the dry runs of the phase search add no via to the
\* board, reach no group creation and add no id to owned_via_ids: the vias the
\* run created and the ids it added to owned_via_ids are those of the applying
\* run only; and (jitter is off) the applying run of the best phase inserts
\* exactly the number of vias its dry run reported
C20_DryRunsDoNotMutate ==
    dout.phase_search.ran =>
        /\ dout.phase_search.dry_runs >= 1
        /\ dout.phase_search.dry_added = <<>>
        /\ ~dout.phase_search.dry_group
        /\ dout.result # "canceled" =>
               /\ dout.phase_search.applied = dout.phase_search.predicted
               /\ Len(dout.placed) = dout.phase_search.predicted
               /\ DOMAIN vias \ DOMAIN dout.pre_vias = Range(dout.placed)
               /\ dlg.owned_via_ids \ dout.pre_owned = Range(dout.placed)
               /\ Cardinality(Range(dout.placed)) = dout.phase_search.predicted
               /\ dout.last_fill_stats.inserted = dout.phase_search.predicted

\* a grid run over an existing array: several phases were tried dry, the best
\* one predicted three vias or more and the applying run placed as many
C20_Witness ==
    /\ dout.phase_search.ran
    /\ dout.result = "filled"
    /\ dout.pre_owned # {}
    /\ dout.phase_search.dry_runs >= 4
    /\ dout.phase_search.predicted >= 3
    /\ Len(dout.placed) = dout.phase_search.predicted
    /\ dout.phase_search.dry_added = <<>>

-----------------------------------------------------------------------------
(* C21 *)

\* the counters a finished strategy run returned; placed counts the vias it
\* put on the board, accepted the candidates that passed both tests
RunStats ==
    IF gOut.kind = "ipc"
    THEN [candidates_tested |-> gOut.res.candidates_tested, inside |-> gOut.res.inside,
          rejected_overlap |-> gOut.res.rejected_overlap, rejected_edge |-> gOut.res.rejected_edge,
          placed |-> Len(gOut.res.new_vias), accepted |-> Len(gOut.res.new_vias)]
    ELSE IF gOut.kind = "grid"
    THEN [candidates_tested |-> gOut.res.stats.candidates, inside |-> gOut.res.stats.inside_zone,
          rejected_overlap |-> gOut.res.stats.rejected_overlap, rejected_edge |-> gOut.res.stats.rejected_edge_margin,
          placed |-> Len(gOut.res.stats.added), accepted |-> gOut.res.stats.inserted]
    ELSE IF gOut.kind = "target"
    THEN [candidates_tested |-> gOut.res.candidates, inside |-> gOut.res.inside_zone,
          rejected_overlap |-> gOut.res.rejected_overlap, rejected_edge |-> gOut.res.rejected_edge_margin,
          placed |-> Len(gOut.res.inserted), accepted |-> gOut.res.target_available]
    ELSE [candidates_tested |-> gOut.res.candidates, inside |-> gOut.res.inside_zone,
          rejected_overlap |-> gOut.res.rejected_overlap, rejected_edge |-> gOut.res.rejected_edge_margin,
          placed |-> Len(gOut.res.inserted), accepted |-> Len(gOut.res.inserted)]

\* C21: in every placement run of every strategy the returned counters satisfy
\* candidates_tested = rejected_edge + rejected_overlap + placed and
\* inside = rejected_overlap + placed
C21_CandidateAccounting ==
    gOut.kind \in {"ipc", "grid", "target", "pack"} =>
        /\ RunStats.candidates_tested = RunStats.rejected_edge + RunStats.rejected_overlap + RunStats.placed
        /\ RunStats.inside = RunStats.rejected_overlap + RunStats.placed

\* C21 as the code has it: in every placement run of every strategy the returned
\* counters satisfy candidates_tested = rejected_edge + rejected_overlap +
\* accepted and inside = rejected_overlap + accepted; every accepted candidate
\* is placed, except in a target-count run that reached its target, which places
\* target_requested of the accepted ones
C21_AcceptedAccounting ==
    gOut.kind \in {"ipc", "grid", "target", "pack"} =>
        /\ RunStats.candidates_tested = RunStats.rejected_edge + RunStats.rejected_overlap + RunStats.accepted
        /\ RunStats.inside = RunStats.rejected_overlap + RunStats.accepted
        /\ IF gOut.kind = "target" /\ gOut.res.success
           THEN RunStats.placed = gOut.res.target_requested /\ RunStats.placed <= RunStats.accepted
           ELSE RunStats.placed = RunStats.accepted

\* a target-count run that rejected candidates for both reasons and accepted
\* more of them than it placed
C21_Witness ==
    /\ gOut.kind = "target"
    /\ RunStats.rejected_edge > 0 /\ RunStats.rejected_overlap > 0
    /\ RunStats.placed > 0 /\ RunStats.accepted > RunStats.placed

-----------------------------------------------------------------------------
(* C22 *)

\* the claim's score of the IPC grid run at a phase
IpcClaimScore(ph) ==
    LET t == GridRunAt(gIn, ph[1], ph[2])
    IN  <<Len(t.new_vias), -(t.rejected_overlap + t.rejected_edge), -t.rejected_edge>>

\* the claim's score of the dialog's dry run at a phase
DialogClaimScore(ph) ==
    LET t == _run_phase(BoardZone(1, gIn.shape, TRUE), gIn.overlappings, gIn.inputs, ph[1], ph[2], FALSE)
    IN  <<t.inserted, -(t.rejected_overlap + t.rejected_edge_margin), -t.rejected_edge_margin>>

\* the phase pairs the dialog's grid branch explores
DialogExploredPhases ==
    Range(_phase_offsets(gIn.inputs.step_x, gIn.inputs.offset_x, IF ~gIn.inputs.center_segments THEN 6 ELSE 1))
        \X Range(_phase_offsets(gIn.inputs.step_y, gIn.inputs.offset_y, 8))

\* the smaller phase offset: smaller phase_y, then smaller phase_x
SmallerPhase(a, b) == a[2] < b[2] \/ (a[2] = b[2] /\ a[1] < b[1])

\* kept beats every other explored phase by score, or ties with it and is the
\* smaller phase
KeptIsBest(kept, phases, score(_)) ==
    /\ kept \in phases
    /\ \A ph \in phases \ {kept} :
           \/ TupleGT(score(kept), score(ph))
           \/ score(kept) = score(ph) /\ SmallerPhase(kept, ph)

\* C22: the phase kept by the phase search is the lexicographic maximum, over the
\* explored phase pairs, of (accepted, -(rejected_overlap + rejected_edge),
\* -rejected_edge); complete ties go to the smaller phase_y, then the smaller
\* phase_x, so the inputs determine the phase kept
C22_PhaseSelectionOrder ==
    /\ gOut.kind = "ipc" =>
           /\ KeptIsBest(<<gOut.res.phase_x, gOut.res.phase_y>>, ExploredPhases(gIn), IpcClaimScore)
           /\ gOut.res = GridRunAt(gIn, gOut.res.phase_x, gOut.res.phase_y)
    /\ gOut.kind = "grid" =>
           /\ KeptIsBest(gOut.res.phase, DialogExploredPhases, DialogClaimScore)
           /\ gOut.res.phase_search.predicted = DialogClaimScore(gOut.res.phase)[1]

\* a search in which the kept phase ties completely with another explored phase
\* and beats a third one
C22_Witness ==
    /\ gOut.kind = "grid"
    /\ \E tie \in DialogExploredPhases \ {gOut.res.phase} :
           DialogClaimScore(tie) = DialogClaimScore(gOut.res.phase)
    /\ \E worse \in DialogExploredPhases :
           TupleGT(DialogClaimScore(gOut.res.phase), DialogClaimScore(worse))

-----------------------------------------------------------------------------
(* C23 *)

\* a coverage interval narrower than one pitch
NarrowInterval == gIn.iv[2] - gIn.iv[1] < gIn.step_x

\* the positions are one point, the centre of the interval rounded to a position
OneAtCentre(positions) ==
    /\ Len(positions) = 1
    /\ Abs(2 * positions[1] - (gIn.iv[1] + gIn.iv[2])) <= 1

\* the lattice positions start_x + k * step_x inside the interval
LatticeInInterval == { x \in gIn.iv[1]..gIn.iv[2] : x >= gIn.start_x /\ (x - gIn.start_x) % gIn.step_x = 0 }

\* C23: with centring enabled, every coverage interval [a, b], b >= a, narrower
\* than one pitch yields exactly one candidate, at the interval's centre,
\* whatever the phase and whether or not maximize is enabled (with centring
\* disabled such an interval may yield no point)
C23_NarrowCentredOnePoint ==
    gOut.kind = "row" /\ gIn.center_segments /\ NarrowInterval =>
        OneAtCentre(gOut.res.ipc) /\ OneAtCentre(gOut.res.dialog)

\* C23 as the code has it: with centring and maximize, a narrow interval yields
\* exactly one candidate at its centre whatever the phase; with centring and
\* without maximize it yields that candidate exactly when a lattice position of
\* the phase lies in the interval, and no candidate otherwise; without centring
\* it yields the lattice positions in the interval, at most one
C23_NarrowCentredNeedsLatticeOrMaximize ==
    gOut.kind = "row" /\ NarrowInterval =>
        /\ gOut.res.ipc = gOut.res.dialog
        /\ Cardinality(LatticeInInterval) <= 1
        /\ IF gIn.center_segments /\ (gIn.maximize_vias \/ LatticeInInterval # {})
           THEN OneAtCentre(gOut.res.ipc)
           ELSE IF gIn.center_segments THEN gOut.res.ipc = <<>>
           ELSE gOut.res.ipc = SetToSortedSeq(LatticeInInterval)

\* a narrow interval between two lattice positions, centring on, maximize off:
\* no candidate
C23_Witness ==
    /\ gOut.kind = "row"
    /\ gIn.center_segments /\ ~gIn.maximize_vias
    /\ NarrowInterval /\ gIn.iv[1] < gIn.iv[2]
    /\ LatticeInInterval = {}
    /\ gOut.res.ipc = <<>> /\ gOut.res.dialog = <<>>
-----------------------------------------------------------------------------
(* C24 *)

\* the via, the pad and the track of the board are in their obstacle lists
ViaIsObstacle == gOut.res.via_obstacles = << <<1, 1, 1>> >>
PadIsObstacle == gOut.res.pad_obstacles = << <<3, 1, 1>> >>
TrackIsObstacle == gOut.res.track_obstacles = << <<0, 5, 3, 5, 1>> >>

\* the layer set the plugin reads from the attributes of an item
ItemLayers(attrs) ==
    IF "layers" \in DOMAIN attrs /\ attrs.layers # {} THEN attrs.layers
    ELSE IF "layer" \in DOMAIN attrs THEN {attrs.layer}
    ELSE {}

\* C24 as stated: with IncludeOtherLayers disabled a via, pad or track is an
\* obstacle only if its layer set intersects the layer set of the zone, and
\* is skipped otherwise, an empty or unknown layer set included; with the
\* flag enabled every via outside the ignored ids, pad and track is an
\* obstacle
C24_LayerFilterSkipsNonIntersecting ==
    gOut.kind = "layers" =>
        /\ ViaIsObstacle <=> /\ 1 \notin gIn.ignore_ids
                              /\ (gIn.include_other_layers \/ ItemLayers(gIn.via) \cap gIn.target_layers # {})
        /\ PadIsObstacle <=> (gIn.include_other_layers \/ ItemLayers(gIn.pad) \cap gIn.target_layers # {})
        /\ TrackIsObstacle <=> (gIn.include_other_layers \/ ItemLayers(gIn.track) \cap gIn.target_layers # {})

\* C24 as the code has it: with IncludeOtherLayers disabled a via, pad or
\* track is skipped exactly when its layer set is not empty and disjoint from
\* the layer set of the zone; an item whose layer set is empty or unknown
\* stays an obstacle; with the flag enabled every via outside the ignored
\* ids, pad and track is an obstacle; a skipped item leaves its list empty
C24_LayerFilterKeepsUnknownLayers ==
    gOut.kind = "layers" =>
        /\ ViaIsObstacle <=> /\ 1 \notin gIn.ignore_ids
                              /\ \/ gIn.include_other_layers
                                 \/ ItemLayers(gIn.via) = {}
                                 \/ ItemLayers(gIn.via) \cap gIn.target_layers # {}
        /\ PadIsObstacle <=> \/ gIn.include_other_layers
                              \/ ItemLayers(gIn.pad) = {}
                              \/ ItemLayers(gIn.pad) \cap gIn.target_layers # {}
        /\ TrackIsObstacle <=> \/ gIn.include_other_layers
                                \/ ItemLayers(gIn.track) = {}
                                \/ ItemLayers(gIn.track) \cap gIn.target_layers # {}
        /\ ~ViaIsObstacle => gOut.res.via_obstacles = <<>>
        /\ ~PadIsObstacle => gOut.res.pad_obstacles = <<>>
        /\ ~TrackIsObstacle => gOut.res.track_obstacles = <<>>

\* the flag disabled, a zone on layer 0: a via on layer 1 only is skipped, a
\* pad without layer information stays an obstacle, a track known by its
\* single layer 0 stays an obstacle
C24_Witness ==
    /\ gOut.kind = "layers"
    /\ ~gIn.include_other_layers /\ gIn.target_layers = {0} /\ gIn.ignore_ids = {}
    /\ gIn.via = [layers |-> {1}] /\ gIn.pad = [layers |-> {}] /\ gIn.track = [layer |-> 0]
    /\ gOut.res.via_obstacles = <<>> /\ PadIsObstacle /\ TrackIsObstacle

-----------------------------------------------------------------------------
(* C25 *)

\* the spacing of a maximize run without min_spacing_nm: the via size
ClaimPackSpacing == Max2(1, gIn.inputs.viasize)

\* the centres of two candidates are nearer than the pack spacing
TooNear(a, b) ==
    (gOut.res.candidates_xy[a][1] - gOut.res.candidates_xy[b][1]) * (gOut.res.candidates_xy[a][1] - gOut.res.candidates_xy[b][1])
        + (gOut.res.candidates_xy[a][2] - gOut.res.candidates_xy[b][2]) * (gOut.res.candidates_xy[a][2] - gOut.res.candidates_xy[b][2])
        < ClaimPackSpacing * ClaimPackSpacing

\* C25: the selection a maximize run returns holds no two candidates nearer
\* than the pack spacing and no candidate twice, every surviving candidate
\* outside the selection is nearer than the pack spacing to a selected one,
\* and the selection is at least as large as the selection of pass 0; the
\* vias added are the selected candidates
C25_PackMaximalIndependent ==
    gOut.kind = "pack" =>
        LET sel == gOut.res.selection
            chosen == { sel[k] : k \in DOMAIN sel }
        IN  /\ chosen \subseteq DOMAIN gOut.res.candidates_xy
            /\ Cardinality(chosen) = Len(sel)
            /\ \A a \in chosen : \A b \in chosen \ {a} : ~TooNear(a, b)
            /\ \A c \in DOMAIN gOut.res.candidates_xy \ chosen : \E a \in chosen : TooNear(a, c)
            /\ Len(sel) >= Len(gOut.res.first_pass)
            /\ ~gOut.res.canceled =>
                   gOut.res.inserted = [k \in DOMAIN sel |-> gOut.res.candidates_xy[sel[k]]]

\* a run in which a later pass selected more candidates than pass 0 and
\* some surviving candidates stayed outside the selection
C25_Witness ==
    /\ gOut.kind = "pack"
    /\ ~gOut.res.canceled
    /\ Len(gOut.res.selection) > Len(gOut.res.first_pass)
    /\ Len(gOut.res.first_pass) > 1
    /\ Len(gOut.res.candidates_xy) > Len(gOut.res.selection)

-----------------------------------------------------------------------------
(* C26 *)

\* a scan over all accepted points finds one nearer than the spacing
BruteForceConflict ==
    \E i \in DOMAIN gIn.accepted :
        (gIn.candidate[1] - gIn.accepted[i][1]) * (gIn.candidate[1] - gIn.accepted[i][1])
            + (gIn.candidate[2] - gIn.accepted[i][2]) * (gIn.candidate[2] - gIn.accepted[i][2])
            < gIn.spacing * gIn.spacing

\* C26: for every list of accepted points and every candidate, negative
\* coordinates included, the hashed sibling test (cell size = spacing, cell
\* key = floor of coordinate / cell size, window of 3 x 3 cells) answers as
\* the scan over all accepted points does, in the phase runs and in the pack
C26_HashEqualsBruteForce ==
    gOut.kind = "hash" =>
        /\ gOut.res.phase <=> BruteForceConflict
        /\ gOut.res.pack <=> BruteForceConflict

\* a candidate left of the origin in conflict with an accepted point right of
\* it, in another cell, while a second accepted point lies outside the window
C26_Witness ==
    /\ gOut.kind = "hash"
    /\ gIn.spacing = 2 /\ gIn.candidate = <<-1, -1>>
    /\ gIn.accepted = << <<2, 1>>, <<0, 0>> >>
    /\ gOut.res.phase /\ gOut.res.pack

-----------------------------------------------------------------------------
(* C27 *)

\* an update-array has returned without error, its commit pushed
UpdateSucceeded == pc = "done" /\ op.kind = "update" /\ op.status = "ok"

\* the ids the update left out of the via obstacles
IgnoredAsObstacle == Range(op.owned_ids) \cup (IF op.answer THEN op.user_vias ELSE {})

\* C27: after a successful update-array with IncludeOtherLayers enabled every
\* created via is at centre distance >= via_radius + pad_margin + other_radius
\* from every other via on the board, and every via that was ignored as an
\* obstacle and was live before the update is no longer on the board
C27_NewViasClearOfRemainingVias ==
    (UpdateSucceeded /\ op.settings.IncludeOtherLayers) =>
        /\ Range(op.created_ids) \subseteq DOMAIN vias
        /\ \A c \in Range(op.created_ids) : \A o \in DOMAIN vias \ {c} :
               (vias[c].x - vias[o].x) * (vias[c].x - vias[o].x) + (vias[c].y - vias[o].y) * (vias[c].y - vias[o].y)
                   >= (op.settings.ViaSize \div 2 + op.settings.PadMargin + vias[o].diameter \div 2)
                          * (op.settings.ViaSize \div 2 + op.settings.PadMargin + vias[o].diameter \div 2)
        /\ IgnoredAsObstacle \cap DOMAIN pre.vias \cap DOMAIN vias = {}

\* an update that replaced its own vias and the user vias of the zone's net
\* while a via of another owner stayed on the board
C27_Witness ==
    /\ UpdateSucceeded /\ op.settings.IncludeOtherLayers
    /\ Range(op.owned_ids) \cap DOMAIN pre.vias # {}
    /\ op.answer /\ op.user_vias # {}
    /\ op.created_ids # <<>>
    /\ DOMAIN vias \ Range(op.created_ids) # {}

-----------------------------------------------------------------------------
(* C28 *)

\* the ownership record of a zone holds an id clean-orphans would drop
StaleRecord(zid) == valid_ids(zid, meta[zid].owned_via_ids) # meta[zid].owned_via_ids

\* what _clean_orphans finds on the board as it is: no orphan via and no id
\* to drop, so that it returns before begin_commit
CleanFindsNothing ==
    /\ orphan_vias(_find_metadata) = {}
    /\ \A zid \in DOMAIN _find_metadata : ~StaleRecord(zid)

\* C28: when update-array has succeeded on a zone and the record of no other
\* zone is stale, a clean-orphans that runs next on the unchanged board finds
\* no orphan via and drops no id, hence begins no commit: every via created
\* is on the board and inside the fill of the zone at margin 0, and the
\* record of the zone holds exactly the created ids
C28_FreshArrayHasNoOrphans ==
    (UpdateSucceeded /\ \A zid \in DOMAIN _find_metadata \ {op.zone} : ~StaleRecord(zid)) =>
        /\ metaItem /\ op.zone \in DOMAIN meta
        /\ meta[op.zone].owned_via_ids = op.created_ids
        /\ \A vid \in Range(op.created_ids) :
               /\ vid \in DOMAIN vias
               /\ _point_inside_zone_with_margin(vias[vid].x, vias[vid].y, _zone_polygons(zones[op.zone]), 0)
        /\ CleanFindsNothing

\* a successful update of one zone while the other zone holds a record with
\* live vias inside its fill
C28_Witness ==
    /\ UpdateSucceeded
    /\ op.created_ids # <<>>
    /\ \E zid \in DOMAIN meta \ {op.zone} : meta[zid].owned_via_ids # <<>>
    /\ \A zid \in DOMAIN meta \ {op.zone} : ~StaleRecord(zid)
    /\ CleanFindsNothing

-----------------------------------------------------------------------------
(* C29 *)

\* C29: from a board without metadata, with the host giving every created
\* via a fresh id, at every point of every sequence of update-array,
\* remove-array and clean-orphans operations and edits of the user the
\* owned_via_ids lists of two distinct zones share no id and no list holds
\* an id twice
C29_OwnershipDisjoint ==
    /\ \A z1, z2 \in DOMAIN meta :
           z1 # z2 => Range(meta[z1].owned_via_ids) \cap Range(meta[z2].owned_via_ids) = {}
    /\ \A z \in DOMAIN meta :
           Cardinality(Range(meta[z].owned_via_ids)) = Len(meta[z].owned_via_ids)

\* both zones own vias, one of them more than one, after an update that
\* replaced an earlier array
C29_Witness ==
    /\ UpdateSucceeded
    /\ Range(op.owned_ids) # {}
    /\ \E z1, z2 \in DOMAIN meta :
           /\ z1 # z2
           /\ Len(meta[z1].owned_via_ids) > 1
           /\ meta[z2].owned_via_ids # <<>>

-----------------------------------------------------------------------------
(* C30 *)

\* the board calls a step has made
NewCalls == IF log' = <<>> THEN <<>> ELSE SubSeq(log', Len(log) + 1, Len(log'))

\* what a step may do to the metadata text item
MetadataItemStep ==
    /\ pc = "sync" =>
           /\ Len(NewCalls) <= 1
           /\ \A i \in DOMAIN NewCalls :
                  /\ NewCalls[i].call \in {"create_items", "update_items"}
                  /\ NewCalls[i].call = "create_items" <=> ~metaItem
           /\ (metaItem /\ NewMetadata = meta) => (NewCalls = <<>> /\ meta' = meta /\ metaItem' = metaItem)
           /\ (metaItem' /\ ~metaItem) => (NewCalls = << [call |-> "create_items", ok |-> TRUE] >>)
           /\ (metaItem /\ meta' # meta) => (metaItem' /\ NewCalls = << [call |-> "update_items", ok |-> TRUE] >>)
    /\ pc = "except" => (metaItem' = pre.metaItem /\ meta' = pre.meta)
    /\ pc \notin {"sync", "except"} => (metaItem' = metaItem /\ meta' = meta)

\* C30: through every sequence of update-array, remove-array and
\* clean-orphans operations the board holds at most one metadata text item:
\* the item comes into being only by the create call of _sync_metadata_item,
\* which is issued only when the board holds none; when the item exists it is
\* updated in place, and neither call is issued when the serialized metadata
\* is that of the item; only a dropped commit takes the item back
C30_SingleMetadataItem == [][MetadataItemStep]_vars

\* the metadata item written by an earlier operation has been updated in
\* place by a later update-array
C30_Witness ==
    /\ pc = "finish" /\ op.kind = "update"
    /\ pre.metaItem /\ metaItem
    /\ meta # pre.meta
    /\ log # <<>> /\ log[Len(log)] = [call |-> "update_items", ok |-> TRUE]

=============================================================================
